---- MODULE Spec2Model ----
(***************************************************************************)
(* A model of the engel UI core: the Prim node tree and its event          *)
(* dispatch (core/src/node/prim.rs), the MVU driver running the sokoban    *)
(* Game model (examples/src/bin/sokoban/main.rs) and the Animate values    *)
(* the Game animates.                                                      *)
(*                                                                         *)
(* Real numbers are modelled as integers (fixed point).  A tree is a       *)
(* function from node numbers 1..n to node records; node 1 is the root and *)
(* a node's children field is the ordered list of its children.            *)
(***************************************************************************)
EXTENDS Integers, Sequences, FiniteSets, TLC

VARIABLES
    view,       \* the Node tree under dispatch
    sysMsg,     \* the SystemMessage of the last send_system_msg call, or NoMsg
    outputs,    \* the outputs batch (Vec<M::Message>) after the last call
    preBatch,   \* the batch handed to the last call
    trace,      \* nodes whose own listener step ran in the last call, in order
    model,      \* the Model the driver owns (the Game)
    folded,     \* the Game::update calls made for the current event, in order:
                \* [msg, cv, before] = the message, the ChangeView returned and
                \* the Game before the call
    decision,   \* the combined ChangeView of the current event's update calls
    applied,    \* the view steps ("build", "modify") the driver called for the
                \* current event, in order
    phase,      \* the driver's position in the cycle of the current event
    host        \* the host (App): builder settings, position in run, the
                \* MouseController and the collaborator calls made so far

vars == <<view, sysMsg, outputs, preBatch, trace, model, folded, decision, applied,
          phase, host>>

-----------------------------------------------------------------------------
(* Bounds of the model *)

MaxNodes == 3
MaxElapsed == 2
MaxScaleFactor == 1100
MaxBatch == 4
\* Nodes of a tree handed to the identifier lookup, and lookups in a row.
MaxIdNodes == 4
MaxLookups == 2
\* Nodes of a tree handed to the view-update aggregator.
MaxAggNodes == 4
\* Sample counts handed to with_multisampling; frame ticks of one run.
MaxSamples == 8
MaxTicks == 2
MaxWait == 2

-----------------------------------------------------------------------------
(* Event kinds, listeners, shapes *)

NoMsg == [kind |-> "none"]

EventName ==
    {"ON_MOUSE_DOWN", "ON_BLUR", "ON_MOUSE_SCROLL", "ON_KEY_DOWN", "ON_KEY_UP",
     "ON_INPUT_CHAR", "DRAW", "WINDOW_RESIZED"}

\* A Listener value: the enum variant and the callback it boxes.
Listener(variant, func) == [variant |-> variant, func |-> func]

\* The application message a callback returns.  Callbacks are total; the
\* message is determined by the callback, the prim it was handed (0 for the
\* Draw and WindowResized callbacks, which get no prim) and the event payload.
Call(listener, prim, event) ==
    CASE listener.func = "game_scroll" ->
            \* |case| Msg::Scroll(case.event.delta.1 as Real)
            [type |-> "Scroll", delta |-> event.delta[2]]
      [] listener.func = "game_key_down" ->
            \* |case| if let Some(code) = case.event.keycode { Msg::KeyDown(code) } else { Msg::None }
            IF event.keycode # <<>>
            THEN [type |-> "KeyDown", code |-> event.keycode[1]]
            ELSE [type |-> "None"]
      [] OTHER ->
            [func |-> listener.func, variant |-> listener.variant,
             prim |-> prim, event |-> event]

Rect(x, y, w, h) == [kind |-> "Rect", x |-> x, y |-> y, w |-> w, h |-> h]
Circle(x, y, r) == [kind |-> "Circle", x |-> x, y |-> y, r |-> r]
Group == [kind |-> "Group"]
Path == [kind |-> "Path"]

\* Mutant of PathIntersect: every point is inside a path.
PathIntersectAlways(shape, x, y) == TRUE

PathIntersect(shape, x, y) == FALSE

\* Containment of a point in a shape, in resolved global coordinates.
ShapeIntersect(shape, x, y) ==
    CASE shape.kind = "Rect" ->
            /\ shape.x <= x /\ x <= shape.x + shape.w
            /\ shape.y <= y /\ y <= shape.y + shape.h
      [] shape.kind = "Circle" ->
            (x - shape.x) * (x - shape.x) + (y - shape.y) * (y - shape.y)
                <= shape.r * shape.r
      [] shape.kind = "Path" -> PathIntersect(shape, x, y)
      [] OTHER -> FALSE

\* Mutant of PrimIntersect: a group contains every point.
PrimIntersectGroupHits(prim, x, y) ==
    prim.shape.kind = "Group" \/ ShapeIntersect(prim.shape, x, y)

PrimIntersect(prim, x, y) == ShapeIntersect(prim.shape, x, y)

Prim(shape, listeners) == [shape |-> shape, children |-> <<>>, listeners |-> listeners]

-----------------------------------------------------------------------------
(* Prim::send_system_msg *)

RECURSIVE CollectUntilMismatch(_, _, _, _, _)
\* Mutant of CollectFrom: `break` where the code has `continue`.
CollectUntilMismatch(list, i, variant, prim, event) ==
    IF i > Len(list) \/ list[i].variant # variant THEN <<>>
    ELSE <<Call(list[i], prim, event)>>
            \o CollectUntilMismatch(list, i + 1, variant, prim, event)

RECURSIVE CollectFrom(_, _, _, _, _)
\* The body of one `for listener in listeners` loop: a listener of the
\* expected variant is called and its message pushed, any other is skipped.
CollectFrom(list, i, variant, prim, event) ==
    IF i > Len(list) THEN <<>>
    ELSE LET rest == CollectFrom(list, i + 1, variant, prim, event)
         IN IF list[i].variant = variant
            THEN <<Call(list[i], prim, event)>> \o rest
            ELSE rest

\* Mutant of Fire: a key without a list answers with a default message.
FireOrDefault(node, key, variant, prim, event) ==
    IF key \in DOMAIN node.listeners
    THEN CollectFrom(node.listeners[key], 1, variant, prim, event)
    ELSE <<Call(Listener(variant, "default"), prim, event)>>

\* `if let Some(listeners) = self.listeners.get(&key) { for ... }`
Fire(node, key, variant, prim, event) ==
    IF key \in DOMAIN node.listeners
    THEN CollectFrom(node.listeners[key], 1, variant, prim, event)
    ELSE <<>>

\* Mutant of MouseDownStep: the Blur branch without its `else`.
MouseDownStepNoElse(node, n, msg) ==
    (IF PrimIntersect(node, msg.event.pos[1], msg.event.pos[2])
     THEN Fire(node, "ON_MOUSE_DOWN", "OnMouseDown", n, msg.event)
     ELSE <<>>)
    \o Fire(node, "ON_BLUR", "OnBlur", n, msg.event)

MouseDownStep(node, n, msg) ==
    IF PrimIntersect(node, msg.event.pos[1], msg.event.pos[2])
    THEN Fire(node, "ON_MOUSE_DOWN", "OnMouseDown", n, msg.event)
    ELSE Fire(node, "ON_BLUR", "OnBlur", n, msg.event)

\* Mutant of MouseScrollStep: the scroll listeners fire without the hit test.
MouseScrollStepNoGate(node, n, msg) ==
    Fire(node, "ON_MOUSE_SCROLL", "OnMouseScroll", n, msg.event)

MouseScrollStep(node, n, msg) ==
    IF PrimIntersect(node, msg.event.pos[1], msg.event.pos[2])
    THEN Fire(node, "ON_MOUSE_SCROLL", "OnMouseScroll", n, msg.event)
    ELSE <<>>

\* Mutant of ListenerStep: a node without geometry ignores key presses.
ListenerStepKeyNeedsGeometry(node, n, msg) ==
    CASE msg.kind = "MouseDown" -> MouseDownStep(node, n, msg)
      [] msg.kind = "MouseScroll" -> MouseScrollStep(node, n, msg)
      [] msg.kind = "KeyDown" ->
            IF node.shape.kind = "Group" THEN <<>>
            ELSE Fire(node, "ON_KEY_DOWN", "OnKeyDown", n, msg.event)
      [] msg.kind = "KeyUp" -> Fire(node, "ON_KEY_UP", "OnKeyUp", n, msg.event)
      [] msg.kind = "Char" -> Fire(node, "ON_INPUT_CHAR", "OnInputChar", n, msg.event)
      [] msg.kind = "Draw" -> Fire(node, "DRAW", "Draw", 0, msg.event)
      [] msg.kind = "WindowResized" ->
            Fire(node, "WINDOW_RESIZED", "WindowResized", 0, msg.event)

\* The `match msg` of send_system_msg: the messages the node itself pushes.
ListenerStep(node, n, msg) ==
    CASE msg.kind = "MouseDown" -> MouseDownStep(node, n, msg)
      [] msg.kind = "MouseScroll" -> MouseScrollStep(node, n, msg)
      [] msg.kind = "KeyDown" -> Fire(node, "ON_KEY_DOWN", "OnKeyDown", n, msg.event)
      [] msg.kind = "KeyUp" -> Fire(node, "ON_KEY_UP", "OnKeyUp", n, msg.event)
      [] msg.kind = "Char" -> Fire(node, "ON_INPUT_CHAR", "OnInputChar", n, msg.event)
      [] msg.kind = "Draw" -> Fire(node, "DRAW", "Draw", 0, msg.event)
      [] msg.kind = "WindowResized" ->
            Fire(node, "WINDOW_RESIZED", "WindowResized", 0, msg.event)

\* Mutant of ChildrenToVisit: a pointer event that misses a node is not
\* handed to the node's children.
ChildrenIfHit(node, n, msg) ==
    IF /\ msg.kind \in {"MouseDown", "MouseScroll"}
       /\ ~PrimIntersect(node, msg.event.pos[1], msg.event.pos[2])
    THEN <<>>
    ELSE node.children

\* Mutant of ChildrenToVisit: the children are visited last to first.
ChildrenReversed(node, n, msg) ==
    [i \in 1..Len(node.children) |-> node.children[Len(node.children) + 1 - i]]

\* The children a node recurses into: `for child in self.children.iter_mut()`.
ChildrenToVisit(node, n, msg) == node.children

RECURSIVE SendSystemMsg(_, _, _, _)
RECURSIVE SendToChildren(_, _, _, _, _)

\* acc = [outputs, trace]: the batch so far and the nodes processed so far.
SendSystemMsg(tree, n, msg, acc) ==
    LET own == ListenerStep(tree[n], n, msg)
        acc1 == [outputs |-> acc.outputs \o own, trace |-> Append(acc.trace, n)]
    IN SendToChildren(tree, ChildrenToVisit(tree[n], n, msg), 1, msg, acc1)

SendToChildren(tree, children, i, msg, acc) ==
    IF i > Len(children) THEN acc
    ELSE SendToChildren(tree, children, i + 1, msg,
                        SendSystemMsg(tree, children[i], msg, acc))

-----------------------------------------------------------------------------
(* Animate<Real>: a current value, a target and an approach rate.            *)

AnimateNew(value, target, speed) == [value |-> value, target |-> target, speed |-> speed]

AnimateDefault == AnimateNew(0, 0, 0)

AnimateTo(a, target) == [a EXCEPT !.target = target]

AnimateSet(a, value) == [a EXCEPT !.value = value, !.target = value]

AnimateVal(a) == a.value

AnimateIsTransient(a) == a.value # a.target

Abs(x) == IF x < 0 THEN -x ELSE x

\* Mutant of AnimateAnimate: the step is added without the snap to the target.
AnimateAnimateNoSnap(a, elapsed) ==
    IF a.target >= a.value
    THEN [a EXCEPT !.value = a.value + a.speed * elapsed]
    ELSE [a EXCEPT !.value = a.value - a.speed * elapsed]

\* One animate(elapsed): move value toward target by speed * elapsed; snap to
\* the target when the remaining distance is at most that step.
AnimateAnimate(a, elapsed) ==
    LET step == a.speed * elapsed
        remaining == Abs(a.target - a.value)
    IN IF remaining <= step
       THEN [a EXCEPT !.value = a.target]
       ELSE IF a.target > a.value
            THEN [a EXCEPT !.value = a.value + step]
            ELSE [a EXCEPT !.value = a.value - step]

-----------------------------------------------------------------------------
(* Option<T> is a sequence of length at most one.                            *)

None == <<>>
Some(x) == <<x>>
IsSome(o) == o # <<>>
Unwrap(o) == o[1]

-----------------------------------------------------------------------------
(* The sokoban level: a grid of cells.  Lengths are in tenths of a pixel and *)
(* the zoom factor in thousandths.                                          *)

LevelGrids ==
    << << <<"Wall", "Docker", "Box", "Place", "Wall">> >>,
       << <<"Wall", "Place", "Box", "Docker", "Wall">> >> >>

\* A set of levels in which a box on a place has a place to be pushed on to.
WideGrids ==
    << << <<"Wall", "Place", "Place", "Box", "Docker", "Wall">> >> >>

\* A grid of the levels as a function of the zero-based row and column.
LoadGrid(grids, number) ==
    LET g == grids[number]
    IN [r \in 0..(Len(g) - 1) |-> [c \in 0..(Len(g[r + 1]) - 1) |-> g[r + 1][c + 1]]]

\* Level::new over the levels it is given: the first of them is loaded.
LevelOver(grids) == [number |-> 1, cells |-> LoadGrid(grids, 1), grids |-> grids]

LevelNew == LevelOver(LevelGrids)

LevelRows(level) == Cardinality(DOMAIN level.cells)

LevelCols(level) == Cardinality(DOMAIN level.cells[0])

LevelCell(level, row, col) ==
    IF row \in DOMAIN level.cells /\ col \in DOMAIN level.cells[0]
    THEN Some(level.cells[row][col])
    ELSE None

CellContainsBox(cell) == cell \in {"Box", "BoxOnPlace"}

CellIsFree(cell) == cell \in {"Empty", "Place"}

LevelDockerPos(level) ==
    CHOOSE rc \in (DOMAIN level.cells) \X (DOMAIN level.cells[0]) :
        level.cells[rc[1]][rc[2]] \in {"Docker", "DockerOnPlace"}

CellWithout(cell) == IF cell \in {"BoxOnPlace", "DockerOnPlace", "Place"} THEN "Place" ELSE "Empty"

CellWithBox(cell) == IF cell = "Place" THEN "BoxOnPlace" ELSE "Box"

CellWithDocker(cell) == IF cell = "Place" THEN "DockerOnPlace" ELSE "Docker"

\* go_box: move the box at (row, col) to (to_row, to_col) when that cell is free.
LevelGoBox(level, row, col, to_row, to_col) ==
    LET to == LevelCell(level, to_row, to_col)
    IN IF IsSome(to) /\ CellIsFree(Unwrap(to))
       THEN [ok |-> TRUE,
             level |-> [level EXCEPT
                          !.cells[row][col] = CellWithout(@),
                          !.cells[to_row][to_col] = CellWithBox(@)]]
       ELSE [ok |-> FALSE, level |-> level]

\* go_docker: move the docker to (to_row, to_col) when that cell is free.
LevelGoDocker(level, to_row, to_col) ==
    LET to == LevelCell(level, to_row, to_col)
        from == LevelDockerPos(level)
    IN IF IsSome(to) /\ CellIsFree(Unwrap(to))
       THEN [ok |-> TRUE,
             level |-> [level EXCEPT
                          !.cells[from[1]][from[2]] = CellWithout(@),
                          !.cells[to_row][to_col] = CellWithDocker(@)]]
       ELSE [ok |-> FALSE, level |-> level]

LevelIsComplete(level) ==
    \A r \in DOMAIN level.cells : \A c \in DOMAIN level.cells[r] : level.cells[r][c] # "Box"

LevelNext(level) ==
    LET number == (level.number % Len(level.grids)) + 1
    IN [level EXCEPT !.number = number, !.cells = LoadGrid(level.grids, number)]

LevelReset(level) == [level EXCEPT !.cells = LoadGrid(level.grids, level.number)]

-----------------------------------------------------------------------------
(* Canvas, Docker and Game of the sokoban example                            *)

CanvasWidth == 8000
CanvasHeight == 6000
DockerSpeed == 3

CalcCellSize(width, height) == height \div 24

CanvasNew ==
    [width |-> CanvasWidth,
     height |-> CanvasHeight,
     cell_size |-> CalcCellSize(CanvasWidth, CanvasHeight),
     scale_factor |-> AnimateNew(10, 1000, 2)]

CanvasResize(canvas, width, height) ==
    [canvas EXCEPT !.width = width, !.height = height,
                   !.cell_size = CalcCellSize(width, height)]

DockerDefault ==
    [row |-> 0, col |-> 0, x |-> AnimateDefault, y |-> AnimateDefault, skew_box |-> None]

SkewBoxIsTransient(skew_box) ==
    AnimateIsTransient(skew_box.x) \/ AnimateIsTransient(skew_box.y)

DockerIsTransient(docker) ==
    \/ AnimateIsTransient(docker.x)
    \/ AnimateIsTransient(docker.y)
    \/ (IsSome(docker.skew_box) /\ SkewBoxIsTransient(Unwrap(docker.skew_box)))

\* Mutant of DockerAnimate: y is left out.
DockerAnimateOnlyX(docker, elapsed) ==
    [docker EXCEPT
        !.x = AnimateAnimate(@, elapsed),
        !.skew_box = IF IsSome(@)
                     THEN Some([Unwrap(@) EXCEPT !.x = AnimateAnimate(@, elapsed)])
                     ELSE @]

DockerAnimate(docker, elapsed) ==
    [docker EXCEPT
        !.x = AnimateAnimate(@, elapsed),
        !.y = AnimateAnimate(@, elapsed),
        !.skew_box = IF IsSome(@)
                     THEN Some([Unwrap(@) EXCEPT !.x = AnimateAnimate(@, elapsed),
                                                 !.y = AnimateAnimate(@, elapsed)])
                     ELSE @]

\* Mutant of DockerUpdate: the docker jumps to the new position.
DockerUpdateSet(docker, x, y) ==
    [docker EXCEPT !.x = AnimateSet(@, x), !.y = AnimateSet(@, y)]

DockerUpdate(docker, x, y) ==
    [docker EXCEPT !.x = AnimateTo(@, x), !.y = AnimateTo(@, y)]

GameIsTransient(game) ==
    AnimateIsTransient(game.canvas.scale_factor) \/ DockerIsTransient(game.docker)

\* Mutant of GameAnimate: the docker is advanced twice in one tick.
GameAnimateTwice(game, elapsed) ==
    [game EXCEPT
        !.canvas.scale_factor = AnimateAnimate(@, elapsed),
        !.docker = DockerAnimate(DockerAnimate(@, elapsed), elapsed)]

GameAnimate(game, elapsed) ==
    [game EXCEPT
        !.canvas.scale_factor = AnimateAnimate(@, elapsed),
        !.docker = DockerAnimate(@, elapsed)]

FieldPos(game) ==
    << (game.canvas.width - LevelCols(game.level) * game.canvas.cell_size) \div 2,
       (game.canvas.height - LevelRows(game.level) * game.canvas.cell_size) \div 2 >>

CellX(game, col) == FieldPos(game)[1] + col * game.canvas.cell_size

CellY(game, row) == FieldPos(game)[2] + row * game.canvas.cell_size

ResetDocker(game) ==
    LET pos == LevelDockerPos(game.level)
        x == CellX(game, pos[2])
        y == CellY(game, pos[1])
    IN [game EXCEPT !.docker =
            [row |-> pos[1], col |-> pos[2],
             x |-> AnimateNew(x, x, DockerSpeed),
             y |-> AnimateNew(y, y, DockerSpeed),
             skew_box |-> None]]

\* Mutant of NextLevel: the state is left as it was.
NextLevelStays(game) ==
    ResetDocker([game EXCEPT !.level = LevelNext(@)])

NextLevel(game) ==
    ResetDocker([game EXCEPT !.level = LevelNext(@), !.state = "Run"])

ResetLevel(game) ==
    [ResetDocker([game EXCEPT !.level = LevelReset(@)]) EXCEPT !.state = "Run"]

\* Identifiers: format!("box_{}_{}", row, col) is one-to-one in (row, col) and
\* never a fixed name.
BoxId(row, col) == <<"box", row, col>>

NameId(name) == <<name, 0, 0>>

\* The row and column steps of a direction. On usize, `row - 1` at row 0
\* wraps in a release build, to a row that Level::cell has no cell for, and
\* panics in a debug build, which ends the run without a step; the row below
\* zero stands for the wrapped row.
DirRow(dir) == CASE dir = "Up" -> -1 [] dir = "Down" -> 1 [] OTHER -> 0

DirCol(dir) == CASE dir = "Left" -> -1 [] dir = "Right" -> 1 [] OTHER -> 0

MoveDocker(game, dir) ==
    LET to_row == game.docker.row + DirRow(dir)
        to_col == game.docker.col + DirCol(dir)
        to == LevelCell(game.level, to_row, to_col)
        to_box_row == to_row + DirRow(dir)
        to_box_col == to_col + DirCol(dir)
        pushed == IF IsSome(to) /\ CellContainsBox(Unwrap(to))
                  THEN LevelGoBox(game.level, to_row, to_col, to_box_row, to_box_col)
                  ELSE [ok |-> FALSE, level |-> game.level]
        g1 == IF pushed.ok
              THEN [game EXCEPT
                      !.level = pushed.level,
                      !.docker.skew_box =
                          Some([id |-> BoxId(to_row, to_col),
                                row |-> to_box_row,
                                col |-> to_box_col,
                                x |-> AnimateNew(CellX(game, to_col),
                                                 CellX(game, to_box_col), DockerSpeed),
                                y |-> AnimateNew(CellY(game, to_row),
                                                 CellY(game, to_box_row), DockerSpeed)]),
                      !.state = IF LevelIsComplete(pushed.level)
                                THEN "LevelComplete" ELSE @]
              ELSE game
        went == LevelGoDocker(g1.level, to_row, to_col)
    IN IF went.ok
       THEN [g1 EXCEPT
               !.level = went.level,
               !.docker = DockerUpdate([@ EXCEPT !.row = to_row, !.col = to_col],
                                       CellX(g1, to_col), CellY(g1, to_row))]
       ELSE g1

GameCreate ==
    ResetDocker([canvas |-> CanvasNew, level |-> LevelNew, state |-> "Run",
                 docker |-> DockerDefault])

Max(a, b) == IF a >= b THEN a ELSE b

\* Model::system_update of Game
SystemUpdate(game, msg) ==
    CASE msg.kind = "WindowResized" ->
            Some([type |-> "Resize", width |-> msg.event[1], height |-> msg.event[2]])
      [] msg.kind = "Draw" -> Some([type |-> "Draw", elapsed |-> msg.event])
      [] OTHER -> None

\* Mutant of DrawUpdate: the animations are never advanced.
DrawUpdateNoAnimate(game, elapsed) ==
    IF GameIsTransient(game)
    THEN [game |-> game, cv |-> "Modify"]
    ELSE CASE game.state = "LevelComplete" -> [game |-> game, cv |-> "Modify"]
           [] game.state = "NextLevel" -> [game |-> NextLevel(game), cv |-> "Rebuild"]
           [] OTHER -> [game |-> game, cv |-> "None"]

\* Mutant of DrawUpdate: the state is looked at before the animations.
DrawUpdateStateFirst(game, elapsed) ==
    CASE game.state = "NextLevel" -> [game |-> NextLevel(game), cv |-> "Rebuild"]
      [] GameIsTransient(game) -> [game |-> GameAnimate(game, elapsed), cv |-> "Modify"]
      [] game.state = "LevelComplete" -> [game |-> game, cv |-> "Modify"]
      [] OTHER -> [game |-> game, cv |-> "None"]

\* The Msg::Draw arm of Game::update
DrawUpdate(game, elapsed) ==
    IF GameIsTransient(game)
    THEN [game |-> GameAnimate(game, elapsed), cv |-> "Modify"]
    ELSE CASE game.state = "LevelComplete" -> [game |-> game, cv |-> "Modify"]
           [] game.state = "NextLevel" -> [game |-> NextLevel(game), cv |-> "Rebuild"]
           [] OTHER -> [game |-> game, cv |-> "None"]

\* Mutant of ScrollUpdate: the zoom is made the target instead of being set.
ScrollUpdateTo(game, delta) ==
    [game |-> [game EXCEPT !.canvas.scale_factor =
                 AnimateTo(@, Max(AnimateVal(@) + delta * 100, 10))],
     cv |-> "Rebuild"]

\* Mutant of ScrollUpdate: the zoom is set without the floor.
ScrollUpdateUnfloored(game, delta) ==
    [game |-> [game EXCEPT !.canvas.scale_factor =
                 AnimateSet(@, AnimateVal(@) + delta * 100)],
     cv |-> "Rebuild"]

\* The Msg::Scroll arm of Game::update
ScrollUpdate(game, delta) ==
    [game |-> [game EXCEPT !.canvas.scale_factor =
                 AnimateSet(@, Max(AnimateVal(@) + delta * 100, 10))],
     cv |-> "Rebuild"]

\* Mutant of KeyDownUpdate: a move key is taken while the docker is moving.
KeyDownUpdateUnlocked(game, code) ==
    CASE code = "Backspace" -> [game |-> ResetLevel(game), cv |-> "Rebuild"]
      [] code \in {"Left", "Right", "Up", "Down"} ->
            [game |-> MoveDocker(game, code), cv |-> "None"]
      [] code = "Enter" /\ game.state = "LevelComplete" ->
            [game |-> [game EXCEPT !.state = "NextLevel"], cv |-> "None"]
      [] OTHER -> [game |-> game, cv |-> "None"]

\* The Msg::KeyDown arms of Game::update
KeyDownUpdate(game, code) ==
    CASE code = "Backspace" -> [game |-> ResetLevel(game), cv |-> "Rebuild"]
      [] code \in {"Left", "Right", "Up", "Down"} /\ ~DockerIsTransient(game.docker) ->
            [game |-> MoveDocker(game, code), cv |-> "None"]
      [] code = "Enter" /\ game.state = "LevelComplete" ->
            [game |-> [game EXCEPT !.state = "NextLevel"], cv |-> "None"]
      [] OTHER -> [game |-> game, cv |-> "None"]

\* Model::update of Game: the new Game and the ChangeView returned.
GameUpdate(game, msg) ==
    CASE msg.type = "Resize" ->
            [game |-> ResetDocker([game EXCEPT
                         !.canvas = CanvasResize(@, msg.width, msg.height)]),
             cv |-> "Rebuild"]
      [] msg.type = "Draw" -> DrawUpdate(game, msg.elapsed)
      [] msg.type = "Scroll" -> ScrollUpdate(game, msg.delta)
      [] msg.type = "KeyDown" -> KeyDownUpdate(game, msg.code)
      [] OTHER -> [game |-> game, cv |-> "None"]

-----------------------------------------------------------------------------
(* The view of the Game: Game::build_view and Game::modify_view.  Only the   *)
(* structure, geometry, identifiers, transforms and transparency of the      *)
(* nodes are kept; paint (fill, stroke, rounding, fonts) is left out.        *)

Translate(x, y) == [tx |-> x, ty |-> y, scale |-> 1000, rot |-> 0]

TransformNew == Translate(0, 0)

\* A node as the builder holds it: kids are nested nodes.
Built(name, shape, listeners, kids) ==
    [name |-> name, shape |-> shape, listeners |-> listeners, kids |-> kids]

RectShape(id, w, h, transparency, transform) ==
    [kind |-> "Rect", id |-> id, x |-> 0, y |-> 0, w |-> w, h |-> h,
     transparency |-> transparency, transform |-> transform]

GroupShape(id, transparency, transform) ==
    [kind |-> "Group", id |-> id, x |-> 0, y |-> 0,
     transparency |-> transparency, transform |-> transform]

Brick(w, h, transform) == Built("rect", RectShape(None, w, h, None, transform), <<>>, <<>>)

FieldTransform(game) ==
    LET sf == AnimateVal(game.canvas.scale_factor)
    IN [tx |-> -(((sf * game.canvas.width) \div 1000 - game.canvas.width) \div 2),
        ty |-> -(((sf * game.canvas.height) \div 1000 - game.canvas.height) \div 2),
        scale |-> sf,
        rot |-> 0]

BuildWall(game, x, y) ==
    LET cell == game.canvas.cell_size
        brick_space == cell \div 15
        brick_height == cell \div 2 - brick_space
        brick_chunk_size == (cell - brick_space) \div 3
        epsilon == cell \div 100
    IN Built("rect", RectShape(Some(NameId("wall")), cell, cell, Some(1000), Translate(x, y)), <<>>,
             << Brick(brick_chunk_size + epsilon, brick_height,
                      Translate(-epsilon, brick_space \div 2)),
                Brick(brick_chunk_size * 2 + epsilon, brick_height,
                      Translate(brick_chunk_size + epsilon + brick_space, brick_space \div 2)),
                Brick(brick_chunk_size * 2 + epsilon, brick_height,
                      Translate(-epsilon, brick_height + (brick_space * 3) \div 2)),
                Brick(brick_chunk_size + epsilon, brick_height,
                      Translate(brick_chunk_size * 2 + epsilon + brick_space,
                                brick_height + (brick_space * 3) \div 2)) >>)

BuildBox(game, row, col, x, y) ==
    LET cell == game.canvas.cell_size
        board_space == cell \div 15
        board_space_half == board_space \div 2
        board_chunk_size == (cell - board_space * 3) \div 3
    IN Built("rect", RectShape(Some(BoxId(row, col)), cell, cell, Some(1000), Translate(x, y)),
             <<>>,
             << Brick(cell - board_space, board_chunk_size,
                      Translate(board_space_half, board_space_half)),
                Brick(board_chunk_size, board_chunk_size,
                      Translate(board_space_half,
                                board_space_half + board_chunk_size + board_space)),
                Brick(board_chunk_size, board_chunk_size,
                      Translate(board_space_half + board_chunk_size + board_space,
                                board_space_half + board_chunk_size + board_space)),
                Brick(board_chunk_size, board_chunk_size,
                      Translate(board_space_half + (board_chunk_size + board_space) * 2,
                                board_space_half + board_chunk_size + board_space)),
                Brick(cell - board_space, board_chunk_size,
                      Translate(board_space_half,
                                board_space_half + board_chunk_size * 2 + board_space * 2)) >>)

BuildDocker(game, x, y) ==
    LET cell == game.canvas.cell_size
        docker_brush_size == cell \div 10
        head_radius == cell \div 5
    IN Built("rect", RectShape(Some(NameId("docker")), cell, cell, Some(1000), Translate(x, y)), <<>>,
             << Built("circle",
                      [kind |-> "Circle", id |-> None, x |-> 0, y |-> 0, r |-> head_radius,
                       transparency |-> None,
                       transform |-> Translate(cell \div 2, head_radius + docker_brush_size)],
                      <<>>, <<>>),
                Built("path",
                      [kind |-> "Path", id |-> None, x |-> 0, y |-> 0,
                       transparency |-> None, transform |-> TransformNew],
                      <<>>, <<>>) >>)

BuildPlace(game, x, y) ==
    LET cell == game.canvas.cell_size
        place_size == cell \div 2
        place_diagonal == (place_size * 1414) \div 1000
    IN Built("rect", RectShape(Some(NameId("place")), cell, cell, Some(1000), Translate(x, y)), <<>>,
             << Brick(place_size, place_size,
                      [tx |-> cell \div 2, ty |-> (cell - place_diagonal) \div 2,
                       scale |-> 1000, rot |-> 45]) >>)

RECURSIVE CellNodes(_, _, _)
\* The row-major scan of build_view from cell number k on: `layer` selects
\* what the scan pushes to cells ("cells"), to boxes ("boxes") or keeps as
\* the docker ("docker").
CellNodes(game, layer, k) ==
    LET cols == LevelCols(game.level)
        row == k \div cols
        col == k % cols
        cell == game.level.cells[row][col]
        x == CellX(game, col)
        y == CellY(game, row)
        here ==
            CASE layer = "cells" /\ cell = "Wall" -> <<BuildWall(game, x, y)>>
              [] layer = "cells" /\ cell \in {"BoxOnPlace", "DockerOnPlace", "Place"} ->
                    <<BuildPlace(game, x, y)>>
              [] layer = "boxes" /\ cell \in {"Box", "BoxOnPlace"} ->
                    <<BuildBox(game, row, col, x, y)>>
              [] layer = "docker" /\ cell \in {"Docker", "DockerOnPlace"} ->
                    <<BuildDocker(game, x, y)>>
              [] OTHER -> <<>>
    IN IF k >= LevelRows(game.level) * cols THEN <<>>
       ELSE here \o CellNodes(game, layer, k + 1)

\* `docker` holds the node of the last docker cell of the scan.
LastOf(seq) == IF seq = <<>> THEN <<>> ELSE <<seq[Len(seq)]>>

InfoNode(game) ==
    Built("group", GroupShape(Some(NameId("info")), Some(1000), TransformNew), <<>>,
          << Built("rect",
                   [kind |-> "Rect", id |-> None, x |-> 0, y |-> 0, w |-> 0, h |-> 0,
                    padding |-> 100, transparency |-> None,
                    transform |-> Translate(game.canvas.width \div 2 - 1080,
                                            game.canvas.height \div 2 - 250)],
                   <<>>,
                   << Built("text",
                            [kind |-> "Text", id |-> None, x |-> 0, y |-> 0,
                             content |-> <<"Level", game.level.number, "completed">>,
                             transparency |-> None, transform |-> TransformNew],
                            <<>>, <<>>) >>) >>)

BuiltView(game) ==
    Built("rect",
          RectShape(None, game.canvas.width, game.canvas.height, None, TransformNew),
          [ON_MOUSE_SCROLL |-> <<Listener("OnMouseScroll", "game_scroll")>>],
          << Built("group",
                   GroupShape(Some(NameId("field")), None, FieldTransform(game)),
                   [ON_KEY_DOWN |-> <<Listener("OnKeyDown", "game_key_down")>>],
                   CellNodes(game, "cells", 0) \o CellNodes(game, "boxes", 0)
                       \o LastOf(CellNodes(game, "docker", 0)) \o <<InfoNode(game)>>) >>)

RECURSIVE FlattenNode(_, _, _, _)
RECURSIVE FlattenKids(_, _, _, _, _)
\* build(): the nodes of a built subtree numbered in pre-order from `index`
\* on, each with its origin resolved against its parent's origin (px, py).
FlattenNode(t, index, px, py) ==
    LET gx == px + t.shape.transform.tx
        gy == py + t.shape.transform.ty
        kids == FlattenKids(t.kids, 1, index + 1, gx, gy)
    IN <<[name |-> t.name,
          shape |-> [t.shape EXCEPT !.x = gx, !.y = gy],
          children |-> kids.roots,
          listeners |-> t.listeners]>> \o kids.nodes

FlattenKids(kids, i, next, px, py) ==
    IF i > Len(kids) THEN [nodes |-> <<>>, roots |-> <<>>]
    ELSE LET sub == FlattenNode(kids[i], next, px, py)
             rest == FlattenKids(kids, i + 1, next + Len(sub), px, py)
         IN [nodes |-> sub \o rest.nodes, roots |-> <<next>> \o rest.roots]

\* Game::build_view
BuildView(game) == FlattenNode(BuiltView(game), 1, 0, 0)

ShapeId(shape) == IF "id" \in DOMAIN shape THEN shape.id ELSE None

RECURSIVE PreOrderFrom(_, _)
RECURSIVE PreOrderKids(_, _, _)
PreOrderFrom(tree, n) == <<n>> \o PreOrderKids(tree, tree[n].children, 1)

PreOrderKids(tree, children, i) ==
    IF i > Len(children) THEN <<>>
    ELSE PreOrderFrom(tree, children[i]) \o PreOrderKids(tree, children, i + 1)

\* Mutant of GetPrim: the last node in pre-order that carries the identifier.
GetPrimLast(tree, id) ==
    LET order == IF tree = <<>> THEN <<>> ELSE PreOrderFrom(tree, 1)
        hits == SelectSeq(order, LAMBDA n : ShapeId(tree[n].shape) = Some(id))
    IN IF hits = <<>> THEN None ELSE Some(hits[Len(hits)])

\* Node::get_prim_mut(id): the first node in depth-first pre-order whose shape
\* carries the identifier, as an Option of its node number.
GetPrim(tree, id) ==
    LET order == IF tree = <<>> THEN <<>> ELSE PreOrderFrom(tree, 1)
        hits == SelectSeq(order, LAMBDA n : ShapeId(tree[n].shape) = Some(id))
    IN IF hits = <<>> THEN None ELSE Some(hits[1])

\* Prim::set_id
SetId(tree, n, id) == [tree EXCEPT ![n].shape.id = Some(id)]

SetTransform(tree, n, transform) == [tree EXCEPT ![n].shape.transform = transform]

\* Mutant of ModifyView: a moved box that is not found is patched onto the
\* docker's node.
ModifyViewPatchDocker(game, tree) ==
    LET docker == GetPrim(tree, NameId("docker"))
        skew == game.docker.skew_box
        cell_box == IF IsSome(docker) /\ IsSome(skew)
                    THEN GetPrim(tree, Unwrap(skew).id)
                    ELSE None
    IN IF IsSome(docker) /\ IsSome(skew) /\ ~IsSome(cell_box)
       THEN [game |-> game,
             view |-> SetId(tree, Unwrap(docker),
                            BoxId(Unwrap(skew).row, Unwrap(skew).col))]
       ELSE [game |-> game, view |-> tree]

\* Game::modify_view: the Game (whose skew_box.id it may rename) and the view.
ModifyView(game, tree) ==
    LET field == GetPrim(tree, NameId("field"))
        v1 == IF IsSome(field)
              THEN SetTransform(tree, Unwrap(field), FieldTransform(game))
              ELSE tree
        docker == GetPrim(v1, NameId("docker"))
        v2 == IF IsSome(docker)
              THEN SetTransform(v1, Unwrap(docker),
                                Translate(AnimateVal(game.docker.x), AnimateVal(game.docker.y)))
              ELSE v1
        skew == game.docker.skew_box
        cell_box == IF IsSome(docker) /\ IsSome(skew)
                    THEN GetPrim(v2, Unwrap(skew).id)
                    ELSE None
        new_id == IF IsSome(skew) THEN BoxId(Unwrap(skew).row, Unwrap(skew).col) ELSE None
        v3 == IF IsSome(cell_box)
              THEN [SetTransform(v2, Unwrap(cell_box),
                                 Translate(AnimateVal(Unwrap(skew).x), AnimateVal(Unwrap(skew).y)))
                    EXCEPT ![Unwrap(cell_box)].shape.id = Some(new_id)]
              ELSE v2
        g1 == IF IsSome(cell_box)
              THEN [game EXCEPT !.docker.skew_box = Some([Unwrap(skew) EXCEPT !.id = new_id])]
              ELSE game
        info == IF game.state = "LevelComplete" THEN GetPrim(v3, NameId("info")) ELSE None
        v4 == IF IsSome(info) /\ v3[Unwrap(info)].shape.kind = "Group"
              THEN [v3 EXCEPT ![Unwrap(info)].shape.transparency = None]
              ELSE v3
    IN [game |-> g1, view |-> v4]

-----------------------------------------------------------------------------
(* ChangeView and the MVU driver (Comp) owning the Game and its view         *)

ChangeView == {"None", "Modify", "Rebuild"}

ChangeViewRank(cv) == CASE cv = "None" -> 0 [] cv = "Modify" -> 1 [] cv = "Rebuild" -> 2

\* Mutant of ChangeViewMax: Modify and Rebuild are ranked the wrong way round.
ChangeViewMaxSwapped(a, b) ==
    IF a = "None" THEN b
    ELSE IF b = "None" THEN a
    ELSE IF "Modify" \in {a, b} THEN "Modify" ELSE "Rebuild"

\* The combination of two ChangeView values: the greater under
\* None < Modify < Rebuild.
ChangeViewMax(a, b) == IF ChangeViewRank(a) >= ChangeViewRank(b) THEN a ELSE b

RECURSIVE FoldChangeView(_, _, _)
\* The combination of cvs[i..], from acc on.
FoldChangeView(cvs, i, acc) ==
    IF i > Len(cvs) THEN acc
    ELSE FoldChangeView(cvs, i + 1, ChangeViewMax(acc, cvs[i]))

\* A Model the driver is instantiated with besides the Game: its translator
\* answers Draw, MouseDown and KeyDown, its update returns the ChangeView
\* its table holds for the message, and its view is a fixed tree.
ProbeSystemUpdate(probe, msg) ==
    IF msg.kind \in {"Draw", "MouseDown", "KeyDown"}
    THEN Some([func |-> "pre", variant |-> "none", prim |-> 0, event |-> "none"])
    ELSE None

ProbeDemand(probe, func) ==
    CASE func = "pre" -> probe.pre
      [] func \in {"a", "s", "l", "e"} -> "Modify"
      [] func \in {"c", "k", "w"} -> "Rebuild"
      [] OTHER -> "None"

ProbeUpdate(probe, msg) ==
    [game |-> [probe EXCEPT !.last = msg.func], cv |-> ProbeDemand(probe, msg.func)]

IsGame(m) == "docker" \in DOMAIN m

\* The Model trait as the driver calls it.
ModelSystemUpdate(m, msg) ==
    IF IsGame(m) THEN SystemUpdate(m, msg) ELSE ProbeSystemUpdate(m, msg)

ModelUpdate(m, msg) == IF IsGame(m) THEN GameUpdate(m, msg) ELSE ProbeUpdate(m, msg)

ModelBuildView(m) == IF IsGame(m) THEN BuildView(m) ELSE m.tree

ModelModifyView(m, tree) ==
    IF IsGame(m) THEN ModifyView(m, tree) ELSE [game |-> m, view |-> tree]

RECURSIVE FoldUpdates(_, _, _, _)
\* Every message of the batch through the Model's update, in order.
FoldUpdates(m, msgs, i, log) ==
    IF i > Len(msgs) THEN [game |-> m, log |-> log]
    ELSE LET res == ModelUpdate(m, msgs[i])
         IN FoldUpdates(res.game, msgs, i + 1,
                        Append(log, [msg |-> msgs[i], cv |-> res.cv, before |-> m]))

\* The decision of a cycle from the log of its update calls.
Decision(log) == FoldChangeView([i \in DOMAIN log |-> log[i].cv], 1, "None")

\* Mutant of CollectMessages: the listeners' messages come before the
\* translator's.
CollectListenersFirst(m, tree, msg) ==
    LET res == SendSystemMsg(tree, 1, msg, [outputs |-> <<>>, trace |-> <<>>])
    IN [outputs |-> res.outputs \o ModelSystemUpdate(m, msg), trace |-> res.trace]

\* Steps 1 and 2: the translator's message, if any, then the messages the
\* dispatch over the tree appends to it.
CollectMessages(m, tree, msg) ==
    SendSystemMsg(tree, 1, msg, [outputs |-> ModelSystemUpdate(m, msg), trace |-> <<>>])

\* Mutant of ViewStep: a Rebuild is followed by a patch of the fresh tree.
ViewStepBuildThenModify(cv, m, tree) ==
    CASE cv = "Rebuild" ->
            LET res == ModelModifyView(m, ModelBuildView(m))
            IN [game |-> res.game, view |-> res.view, applied |-> <<"build", "modify">>]
      [] cv = "Modify" ->
            LET res == ModelModifyView(m, tree)
            IN [game |-> res.game, view |-> res.view, applied |-> <<"modify">>]
      [] OTHER -> [game |-> m, view |-> tree, applied |-> <<>>]

\* Mutant of ViewStep: on Rebuild the old tree is patched and kept.
ViewStepKeepTree(cv, m, tree) ==
    CASE cv = "Rebuild" ->
            LET res == ModelModifyView(m, tree)
            IN [game |-> m, view |-> res.view, applied |-> <<"build">>]
      [] cv = "Modify" ->
            LET res == ModelModifyView(m, tree)
            IN [game |-> res.game, view |-> res.view, applied |-> <<"modify">>]
      [] OTHER -> [game |-> m, view |-> tree, applied |-> <<>>]

\* Steps 4-6: rebuild the view, patch it, or leave it.
ViewStep(cv, m, tree) ==
    CASE cv = "Rebuild" ->
            [game |-> m, view |-> ModelBuildView(m), applied |-> <<"build">>]
      [] cv = "Modify" ->
            LET res == ModelModifyView(m, tree)
            IN [game |-> res.game, view |-> res.view, applied |-> <<"modify">>]
      [] OTHER -> [game |-> m, view |-> tree, applied |-> <<>>]

\* The system events the host hands the driver of the Game, lengths in
\* tenths of a pixel as the Game keeps them.
GameEvents ==
    {[kind |-> "Draw", event |-> 80]}
    \cup {[kind |-> "MouseScroll", event |-> [pos |-> <<1000, 1000>>, delta |-> <<0, d>>]] :
            d \in {-10, 10}}
    \cup {[kind |-> "MouseScroll", event |-> [pos |-> <<9000, 5000>>, delta |-> <<0, 10>>]]}
    \cup {[kind |-> "KeyDown", event |-> [scancode |-> 0, keycode |-> k]] :
            k \in {<<"Left">>, <<"Right">>, <<"Enter">>, <<"Backspace">>, <<>>}}
    \cup {[kind |-> "WindowResized", event |-> <<4800, 2400>>],
          [kind |-> "MouseDown", event |-> [pos |-> <<1000, 1000>>, button |-> "Left"]],
          [kind |-> "KeyUp", event |-> [scancode |-> 0, keycode |-> <<"Enter">>]]}

\* The model bounds the zoom a scroll may reach.
WithinBounds(msg) ==
    (IsGame(model) /\ msg.kind = "MouseScroll") =>
        AnimateVal(model.canvas.scale_factor) + msg.event.delta[2] * 100 <= MaxScaleFactor

-----------------------------------------------------------------------------
(* Bounded inputs of the dispatch harness: trees built with Prim::new from   *)
(* a few node templates, and one system message of every kind.               *)

NodeKinds ==
    << Prim(Rect(0, 0, 20, 20),
            [ON_MOUSE_DOWN |-> <<Listener("OnMouseDown", "a")>>,
             ON_BLUR |-> <<Listener("OnBlur", "b")>>]),
       Prim(Group, <<>>),
       Prim(Circle(30, 30, 5),
            [ON_MOUSE_DOWN |-> <<Listener("OnMouseDown", "a"), Listener("OnMouseDown", "c")>>,
             ON_MOUSE_SCROLL |-> <<Listener("OnMouseScroll", "s")>>,
             ON_KEY_DOWN |-> <<Listener("OnKeyDown", "k")>>]),
       Prim(Path,
            [ON_MOUSE_DOWN |-> <<Listener("OnMouseDown", "a")>>,
             ON_BLUR |-> <<Listener("OnBlur", "b"), Listener("OnBlur", "e")>>,
             ON_MOUSE_SCROLL |-> <<Listener("OnMouseScroll", "s")>>,
             DRAW |-> <<Listener("Draw", "d")>>,
             WINDOW_RESIZED |-> <<Listener("WindowResized", "w")>>]),
       \* a registry whose ON_MOUSE_DOWN list holds a listener of another variant
       Prim(Rect(0, 0, 20, 20),
            [ON_MOUSE_DOWN |-> <<Listener("OnBlur", "b"), Listener("OnMouseDown", "a")>>,
             ON_BLUR |-> <<>>,
             ON_KEY_UP |-> <<Listener("OnKeyUp", "u")>>,
             ON_INPUT_CHAR |-> <<Listener("OnInputChar", "i"), Listener("OnInputChar", "j")>>]),
       Prim(Group,
            [ON_MOUSE_DOWN |-> <<Listener("OnMouseDown", "a")>>,
             ON_BLUR |-> <<Listener("OnBlur", "b")>>,
             ON_KEY_DOWN |-> <<Listener("OnKeyDown", "k"), Listener("OnKeyDown", "l")>>]) >>

ParentVecs(n) ==
    {p \in [1..n -> 0..n] : p[1] = 0 /\ \A i \in 2..n : p[i] \in 1..(i - 1)}

ChildrenOf(n, p, i) == SelectSeq([j \in 1..n |-> j], LAMBDA j : p[j] = i)

MkTree(n, p, k) ==
    [i \in 1..n |-> [NodeKinds[k[i]] EXCEPT !.children = ChildrenOf(n, p, i)]]

Trees ==
    UNION {{MkTree(n, p, k) : p \in ParentVecs(n), k \in [1..n -> DOMAIN NodeKinds]}
           : n \in 1..MaxNodes}

Points == {<<10, 10>>, <<30, 30>>, <<50, 50>>}

SystemMessages ==
    {[kind |-> "MouseDown", event |-> [pos |-> p, button |-> "Left"]] : p \in Points}
    \cup {[kind |-> "MouseScroll", event |-> [pos |-> p, delta |-> <<0, 1>>]] : p \in Points}
    \cup {[kind |-> "KeyDown", event |-> [scancode |-> 28, keycode |-> <<"Enter">>]],
          [kind |-> "KeyUp", event |-> [scancode |-> 28, keycode |-> <<"Enter">>]],
          [kind |-> "Char", event |-> "x"],
          [kind |-> "Draw", event |-> 16],
          [kind |-> "WindowResized", event |-> <<800, 600>>]}

PreMsg == [func |-> "pre", variant |-> "none", prim |-> 0, event |-> "none"]

PreBatches == {<<>>, <<PreMsg>>}

-----------------------------------------------------------------------------
(* The MouseController and the host (App) of controller_glutin               *)

MousePos(x, y) == [x |-> x, y |-> y]

\* MouseController::new
MouseControllerNew == [last_pos |-> None, last_offset |-> None]

\* Mutant of UpdatePos: the y difference is not reversed.
UpdatePosUpwards(mc, x, y) ==
    LET offset == IF IsSome(mc.last_pos)
                  THEN MousePos(x - Unwrap(mc.last_pos).x, y - Unwrap(mc.last_pos).y)
                  ELSE MousePos(0, 0)
    IN [last_pos |-> Some(MousePos(x, y)), last_offset |-> Some(offset)]

\* MouseController::update_pos
UpdatePos(mc, x, y) ==
    LET offset == IF IsSome(mc.last_pos)
                  THEN MousePos(x - Unwrap(mc.last_pos).x, Unwrap(mc.last_pos).y - y)
                  ELSE MousePos(0, 0)
    IN [last_pos |-> Some(MousePos(x, y)), last_offset |-> Some(offset)]

\* Mutant of LastPos: the last offset is taken for the position.
LastPosIsOffset(mc) ==
    IF IsSome(mc.last_offset) THEN Unwrap(mc.last_offset) ELSE MousePos(0, 0)

\* MouseController::last_pos
LastPos(mc) == IF IsSome(mc.last_pos) THEN Unwrap(mc.last_pos) ELSE MousePos(0, 0)

\* The message MouseController::pressed_comp sends.
PressedComp(mc, button) ==
    [kind |-> "MouseDown",
     event |-> [pos |-> <<LastPos(mc).x, LastPos(mc).y>>, button |-> button]]

\* The message MouseController::mouse_scroll sends.
MouseScrollComp(mc, delta) ==
    [kind |-> "MouseScroll",
     event |-> [pos |-> <<LastPos(mc).x, LastPos(mc).y>>, delta |-> delta]]

\* u16::is_power_of_two
RECURSIVE IsPowerOfTwo(_)
IsPowerOfTwo(n) ==
    IF n = 0 THEN FALSE
    ELSE IF n = 1 THEN TRUE
    ELSE n % 2 = 0 /\ IsPowerOfTwo(n \div 2)

\* A call to a collaborator (renderer, context, comp) and what it returned.
Called(call, ret) == [call |-> call, ret |-> ret]

Failed(calls) == \E i \in DOMAIN calls : calls[i].ret = "err"

\* App::new; the pixel format requirements start without multisampling.
\* Besides the builder's settings the record keeps where the run stands
\* (pos), the last builder or controller call (last), the last window event
\* the loop handled (event), the collaborator calls made so far, the time
\* that passed since last_time was taken (since) and what the last
\* RedrawRequested did, in order (frame).
HostNew ==
    [multisampling |-> None, exit_by_escape |-> TRUE, font |-> None,
     pos |-> "builder", last |-> <<>>, result |-> None, event |-> <<>>,
     mouse |-> MouseControllerNew, calls |-> <<>>, tick |-> <<>>, ticks |-> 0,
     since |-> 0, frame |-> <<>>]

\* Mutant of MultisamplingOf: a sample count that is no power of two is stored.
MultisamplingUnchecked(samples) ==
    IF samples = 0 THEN [panic |-> FALSE, value |-> None]
    ELSE [panic |-> FALSE, value |-> Some(samples)]

\* The match of App::with_multisampling: the value stored, or the panic of
\* the assert.
MultisamplingOf(samples) ==
    IF samples = 0 THEN [panic |-> FALSE, value |-> None]
    ELSE IF IsPowerOfTwo(samples) THEN [panic |-> FALSE, value |-> Some(samples)]
    ELSE [panic |-> TRUE, value |-> None]

\* Mutant of StartCalls: a failed init is tried once more.
StartCallsRetryInit(built, init, hasFont, loaded) ==
    IF built # "ok" THEN <<Called(built, "err")>>
    ELSE <<Called("make_current", "ok"), Called("set_dimensions", "ok"),
           Called("init", IF init THEN "ok" ELSE "err")>>
         \o (IF init THEN <<>> ELSE <<Called("init", "ok")>>)
         \o (IF hasFont
             THEN <<Called("load_font", IF loaded THEN "ok" ELSE "err")>>
             ELSE <<>>)

\* The collaborator calls of run_with_prerender before the event loop, each
\* `?` ending the sequence at the first failure. built is "ok" or the call
\* that failed to give a current context (build_windowed, make_current).
StartCalls(built, init, hasFont, loaded) ==
    IF built # "ok" THEN <<Called(built, "err")>>
    ELSE <<Called("make_current", "ok"), Called("set_dimensions", "ok"),
           Called("init", IF init THEN "ok" ELSE "err")>>
         \o (IF init /\ hasFont
             THEN <<Called("load_font", IF loaded THEN "ok" ELSE "err")>>
             ELSE <<>>)

\* Mutant of TickCalls: the frame is rendered whatever update_view reports.
TickCallsAlwaysRender(updated, rendered, swapped) ==
    <<Called("update_view", IF updated THEN "some" ELSE "none"),
      Called("set_dimensions", "ok"), Called("render", rendered)>>
    \o (IF rendered = "true"
        THEN <<Called("swap_buffers", IF swapped THEN "ok" ELSE "err")>>
        ELSE <<>>)

\* Mutant of TickCalls: the buffers are swapped whatever render returned.
TickCallsAlwaysSwap(updated, rendered, swapped) ==
    <<Called("update_view", IF updated THEN "some" ELSE "none")>>
    \o (IF updated
        THEN <<Called("set_dimensions", "ok"), Called("render", rendered)>>
             \o (IF rendered # "err"
                 THEN <<Called("swap_buffers", IF swapped THEN "ok" ELSE "err")>>
                 ELSE <<>>)
        ELSE <<Called("sleep", "ok")>>)

\* The calls of the RedrawRequested handler after the Draw message was sent:
\* `if comp.update_view().is_some() { set_dimensions; if render()? { swap_buffers()? } }
\*  else { sleep }`. rendered is "true", "false" or "err".
TickCalls(updated, rendered, swapped) ==
    <<Called("update_view", IF updated THEN "some" ELSE "none")>>
    \o (IF updated
        THEN <<Called("set_dimensions", "ok"), Called("render", rendered)>>
             \o (IF rendered = "true"
                 THEN <<Called("swap_buffers", IF swapped THEN "ok" ELSE "err")>>
                 ELSE <<>>)
        ELSE <<Called("sleep", "ok")>>)

\* Mutant of RedrawCalls: the Draw message is sent before the hook is asked.
RedrawCallsDrawFirst(hook, since, tick) ==
    <<Called("send_system_msg", <<"Draw", since>>), Called("redraw_hook", hook)>>
    \o (IF hook = "Exit" THEN <<>> ELSE tick)

\* What the RedrawRequested handler does, in order: the hook, and unless it
\* answered Exit, the Draw message with the time since last_time and then
\* the calls of TickCalls.
RedrawCalls(hook, since, tick) ==
    <<Called("redraw_hook", hook)>>
    \o (IF hook = "Exit"
        THEN <<>>
        ELSE <<Called("send_system_msg", <<"Draw", since>>)>> \o tick)

-----------------------------------------------------------------------------
(* The dispatch harness: a caller hands one system message and a batch to    *)
(* the root's send_system_msg.                                               *)

InitDispatch ==
    /\ phase = "Idle"
    /\ host = HostNew
    /\ decision = "None"
    /\ applied = <<>>
    /\ model = GameCreate
    /\ folded = <<>>
    /\ view \in Trees
    /\ sysMsg = NoMsg
    /\ outputs = <<>>
    /\ preBatch = <<>>
    /\ trace = <<>>

\* Mutant of Dispatch: a listener that fired detaches the root's children.
DispatchDetaching(msg, pre) ==
    LET res == SendSystemMsg(view, 1, msg, [outputs |-> pre, trace |-> <<>>])
    IN /\ sysMsg = NoMsg
       /\ sysMsg' = msg
       /\ preBatch' = pre
       /\ outputs' = res.outputs
       /\ trace' = res.trace
       /\ view' = IF Len(res.outputs) > Len(pre)
                  THEN [view EXCEPT ![1].children = <<>>]
                  ELSE view
       /\ UNCHANGED <<model, folded, decision, applied, phase, host>>

Dispatch(msg, pre) ==
    LET res == SendSystemMsg(view, 1, msg, [outputs |-> pre, trace |-> <<>>])
    IN /\ sysMsg = NoMsg
       /\ sysMsg' = msg
       /\ preBatch' = pre
       /\ outputs' = res.outputs
       /\ trace' = res.trace
       /\ UNCHANGED <<view, model, folded, decision, applied, phase, host>>

\* The caller takes the batch; the tree is ready for the next message.
Consume ==
    /\ sysMsg # NoMsg
    /\ sysMsg' = NoMsg
    /\ preBatch' = <<>>
    /\ outputs' = <<>>
    /\ trace' = <<>>
    /\ UNCHANGED <<view, model, folded, decision, applied, phase, host>>

NextDispatch ==
    \/ \E msg \in SystemMessages, pre \in PreBatches : Dispatch(msg, pre)
    \/ Consume

SpecDispatch == InitDispatch /\ [][NextDispatch]_vars

-----------------------------------------------------------------------------
(* The MVU driver: one system event per cycle through Comp::send_system_msg  *)
(* and Comp::update_view.                                                    *)

ProbeTrees == {t \in Trees : Len(t) <= 2}

InitMvu ==
    /\ phase = "Idle"
    /\ host = HostNew
    /\ \/ /\ model = GameCreate
          /\ view = BuildView(GameCreate)
       \/ \E t \in ProbeTrees, cv \in ChangeView :
             /\ model = [tree |-> t, pre |-> cv, last |-> "none"]
             /\ view = t
    /\ sysMsg = NoMsg
    /\ outputs = <<>>
    /\ preBatch = <<>>
    /\ trace = <<>>
    /\ folded = <<>>
    /\ decision = "None"
    /\ applied = <<>>

Events == IF IsGame(model) THEN GameEvents ELSE SystemMessages

\* One cycle: translate, dispatch, fold, decide, then build or patch.
Cycle(msg) ==
    /\ sysMsg = NoMsg
    /\ WithinBounds(msg)
    /\ \E collected \in {CollectMessages(model, view, msg)} :
       \E reduced \in {FoldUpdates(model, collected.outputs, 1, <<>>)} :
       \E res \in {ViewStep(Decision(reduced.log), reduced.game, view)} :
          /\ sysMsg' = msg
          /\ preBatch' = ModelSystemUpdate(model, msg)
          /\ outputs' = collected.outputs
          /\ trace' = collected.trace
          /\ folded' = reduced.log
          /\ decision' = Decision(reduced.log)
          /\ model' = res.game
          /\ view' = res.view
          /\ applied' = res.applied
          /\ UNCHANGED <<phase, host>>

\* The driver is idle again; the records of the cycle are dropped.
Idle ==
    /\ sysMsg # NoMsg
    /\ sysMsg' = NoMsg
    /\ outputs' = <<>>
    /\ preBatch' = <<>>
    /\ trace' = <<>>
    /\ folded' = <<>>
    /\ decision' = "None"
    /\ applied' = <<>>
    /\ UNCHANGED <<model, view, phase, host>>

NextMvu ==
    \/ \E msg \in Events : Cycle(msg)
    \/ Idle

SpecMvu == InitMvu /\ [][NextMvu]_vars

-----------------------------------------------------------------------------
(* The cycle phase by phase: the driver's position between the steps of one  *)
(* send_system_msg call.                                                     *)

Phases == {"Idle", "Translating", "Dispatching", "Reducing", "Deciding"}

InitCycle ==
    /\ phase = "Idle"
    /\ host = HostNew
    /\ \E t \in ProbeTrees, cv \in ChangeView :
          /\ model = [tree |-> t, pre |-> cv, last |-> "none"]
          /\ view = t
    /\ sysMsg = NoMsg
    /\ outputs = <<>>
    /\ preBatch = <<>>
    /\ trace = <<>>
    /\ folded = <<>>
    /\ decision = "None"
    /\ applied = <<>>

\* The host calls send_system_msg; the records of the previous cycle go.
Receive(msg) ==
    /\ phase = "Idle"
    /\ phase' = "Translating"
    /\ sysMsg' = msg
    /\ outputs' = <<>>
    /\ preBatch' = <<>>
    /\ trace' = <<>>
    /\ folded' = <<>>
    /\ decision' = "None"
    /\ applied' = <<>>
    /\ UNCHANGED <<model, view, host>>

\* Step 1: the Model's translator.
TranslateEvent ==
    /\ phase = "Translating"
    /\ phase' = "Dispatching"
    /\ preBatch' = ModelSystemUpdate(model, sysMsg)
    /\ outputs' = ModelSystemUpdate(model, sysMsg)
    /\ UNCHANGED <<sysMsg, trace, folded, decision, applied, model, view, host>>

\* Mutant of DispatchTree: a dispatch that collected nothing ends the cycle.
DispatchTreeCancelling ==
    /\ phase = "Dispatching"
    /\ \E res \in {SendSystemMsg(view, 1, sysMsg, [outputs |-> outputs, trace |-> <<>>])} :
          /\ outputs' = res.outputs
          /\ trace' = res.trace
          /\ phase' = IF res.outputs = <<>> THEN "Idle" ELSE "Reducing"
    /\ UNCHANGED <<sysMsg, preBatch, folded, decision, applied, model, view, host>>

\* Step 2: the dispatch over the tree.
DispatchTree ==
    /\ phase = "Dispatching"
    /\ phase' = "Reducing"
    /\ \E res \in {SendSystemMsg(view, 1, sysMsg, [outputs |-> outputs, trace |-> <<>>])} :
          /\ outputs' = res.outputs
          /\ trace' = res.trace
    /\ UNCHANGED <<sysMsg, preBatch, folded, decision, applied, model, view, host>>

\* Step 3: every message through update, the demands combined.
Reduce ==
    /\ phase = "Reducing"
    /\ phase' = "Deciding"
    /\ \E reduced \in {FoldUpdates(model, outputs, 1, <<>>)} :
          /\ model' = reduced.game
          /\ folded' = reduced.log
          /\ decision' = Decision(reduced.log)
    /\ UNCHANGED <<sysMsg, outputs, preBatch, trace, applied, view, host>>

\* Steps 4-6: build, patch or nothing; the call returns.
Decide ==
    /\ phase = "Deciding"
    /\ phase' = "Idle"
    /\ \E res \in {ViewStep(decision, model, view)} :
          /\ model' = res.game
          /\ view' = res.view
          /\ applied' = res.applied
    /\ UNCHANGED <<sysMsg, outputs, preBatch, trace, folded, decision, host>>

CycleSteps == TranslateEvent \/ DispatchTree \/ Reduce \/ Decide

NextCycle ==
    \/ \E msg \in SystemMessages : Receive(msg)
    \/ TranslateEvent
    \/ DispatchTree
    \/ Reduce
    \/ Decide

SpecCycle == InitCycle /\ [][NextCycle]_vars

\* send_system_msg is one synchronous call: once entered, its steps run.
SpecCycleLive == SpecCycle /\ WF_vars(CycleSteps)

-----------------------------------------------------------------------------
(* The fold harness: a batch of ChangeView values, as a cycle's update calls *)
(* return them, is combined in two groups split at any point.  `outputs`     *)
(* holds the batch and `trace` the split point.                              *)

RECURSIVE Batches(_)
Batches(n) ==
    IF n = 0 THEN {<<>>}
    ELSE Batches(n - 1) \cup {Append(b, cv) : b \in Batches(n - 1), cv \in ChangeView}

InitFold ==
    /\ phase = "Idle"
    /\ host = HostNew
    /\ outputs \in Batches(MaxBatch)
    /\ trace = <<>>
    /\ decision = "None"
    /\ model = GameCreate
    /\ view = <<>>
    /\ sysMsg = NoMsg
    /\ preBatch = <<>>
    /\ folded = <<>>
    /\ applied = <<>>

\* Combine outputs[1..k] and outputs[k+1..] each on its own, then the two.
CombineGrouped(k) ==
    /\ trace = <<>>
    /\ trace' = <<k>>
    /\ decision' = ChangeViewMax(FoldChangeView(SubSeq(outputs, 1, k), 1, "None"),
                                 FoldChangeView(SubSeq(outputs, k + 1, Len(outputs)), 1, "None"))
    /\ UNCHANGED <<outputs, model, view, sysMsg, preBatch, folded, applied, phase, host>>

NextFold == \E k \in 0..Len(outputs) : CombineGrouped(k)

SpecFold == InitFold /\ [][NextFold]_vars

-----------------------------------------------------------------------------
(* The view-update aggregator                                                *)

UpdateView == {"None", "Modify"}

\* UpdateView::merge: the greater of the two under None < Modify.
UpdateViewMerge(a, b) == IF a = "Modify" \/ b = "Modify" THEN "Modify" ELSE "None"

RECURSIVE UpdateViewOf(_, _)
RECURSIVE PrimUpdateView(_, _, _, _)
RECURSIVE PrimUpdateViewLast(_, _, _, _)
RECURSIVE PrimUpdateViewOwn(_, _, _, _)

\* Node::update_view: a Prim folds its children, any other node answers with
\* its own signal.
UpdateViewOf(tree, n) ==
    IF "signal" \in DOMAIN tree[n] THEN tree[n].signal
    ELSE PrimUpdateView(tree, tree[n].children, 1, "None")

\* Mutant of PrimUpdateView: the child's result replaces the aggregate.
PrimUpdateViewLast(tree, children, i, update) ==
    IF i > Len(children) THEN update
    ELSE PrimUpdateViewLast(tree, children, i + 1, UpdateViewOf(tree, children[i]))

\* Mutant of PrimUpdateView: a Prim that carries an identifier reports a change
\* of its own.
PrimUpdateViewOwn(tree, children, i, update) ==
    IF i > Len(children) THEN update
    ELSE PrimUpdateViewOwn(tree, children, i + 1,
                           IF "id" \in DOMAIN tree[children[i]].shape
                              /\ IsSome(tree[children[i]].shape.id)
                           THEN "Modify"
                           ELSE UpdateViewMerge(UpdateViewOf(tree, children[i]), update))

\* Prim::update_view: `for child in children { update = child.update_view().merge(update) }`
PrimUpdateView(tree, children, i, update) ==
    IF i > Len(children) THEN update
    ELSE PrimUpdateView(tree, children, i + 1,
                        UpdateViewMerge(UpdateViewOf(tree, children[i]), update))

-----------------------------------------------------------------------------
(* The aggregator harness: update_view is called on the root of a tree whose *)
(* leaves may be nodes with a signal of their own.                           *)

\* A node that is not a Prim: it has no Prim children and reports `signal`.
SignalNode(signal) == [signal |-> signal, children |-> <<>>]

UpdateKinds == <<Prim(Group, <<>>), SignalNode("None"), SignalNode("Modify")>>

\* Every tree of up to MaxAggNodes nodes in which only a Prim has children.
UpdateTrees ==
    UNION {{[i \in 1..n |->
                IF "signal" \in DOMAIN UpdateKinds[pk[2][i]]
                THEN UpdateKinds[pk[2][i]]
                ELSE [UpdateKinds[pk[2][i]] EXCEPT !.children = ChildrenOf(n, pk[1], i)]]
               : pk \in {qk \in ParentVecs(n) \X [1..n -> DOMAIN UpdateKinds] :
                            \A i \in 1..n : "signal" \in DOMAIN UpdateKinds[qk[2][i]]
                                               => ChildrenOf(n, qk[1], i) = <<>>}}
           : n \in 1..MaxAggNodes}

InitUpdateView ==
    /\ phase = "Idle"
    /\ host = HostNew
    /\ decision = "None"
    /\ applied = <<>>
    /\ model = GameCreate
    /\ folded = <<>>
    /\ view \in UpdateTrees
    /\ sysMsg = NoMsg
    /\ outputs = <<>>
    /\ preBatch = <<>>
    /\ trace = <<>>

\* root.update_view(); the caller keeps what each node of the walk returned.
UpdateViewCall ==
    /\ trace = <<>>
    /\ trace' = [n \in DOMAIN view |-> UpdateViewOf(view, n)]
    /\ UNCHANGED <<view, sysMsg, outputs, preBatch, model, folded, decision, applied, phase, host>>

\* A node with a signal of its own changes it; earlier results are dropped.
Touch(n, signal) ==
    /\ n \in DOMAIN view
    /\ "signal" \in DOMAIN view[n]
    /\ view[n].signal # signal
    /\ view' = [view EXCEPT ![n].signal = signal]
    /\ trace' = <<>>
    /\ UNCHANGED <<sysMsg, outputs, preBatch, model, folded, decision, applied, phase, host>>

NextUpdateView ==
    \/ UpdateViewCall
    \/ \E n \in 1..MaxAggNodes, signal \in UpdateView : Touch(n, signal)

SpecUpdateView == InitUpdateView /\ [][NextUpdateView]_vars

-----------------------------------------------------------------------------
(* The lookup harness: a patch step looks nodes up by identifier and renames *)
(* the node it found, as Game::modify_view does with a pushed box.           *)

LookupIds == {NameId("a"), NameId("b"), NameId("c")}

\* The identifiers the nodes of the trees carry; "c" is carried by none.
CarriedIds == {None, Some(NameId("a")), Some(NameId("b"))}

IdPrim(id) == Prim(RectShape(id, 200, 200, None, TransformNew), <<>>)

IdTrees ==
    UNION {{[i \in 1..n |-> [IdPrim(ids[i]) EXCEPT !.children = ChildrenOf(n, p, i)]]
               : p \in ParentVecs(n), ids \in [1..n -> CarriedIds]}
           : n \in 1..MaxIdNodes}

InitLookup ==
    /\ phase = "Idle"
    /\ host = HostNew
    /\ decision = "None"
    /\ applied = <<>>
    /\ model = GameCreate
    /\ folded = <<>>
    /\ view \in IdTrees
    /\ sysMsg = NoMsg
    /\ outputs = <<>>
    /\ preBatch = <<>>
    /\ trace = <<>>

\* view.get_prim_mut(id), the result kept by the caller.
Lookup(id) ==
    /\ Len(trace) < MaxLookups
    /\ trace' = Append(trace, [id |-> id, found |-> GetPrim(view, id)])
    /\ UNCHANGED <<view, sysMsg, outputs, preBatch, model, folded, decision, applied, phase, host>>

\* if let Some(cell_box) = view.get_prim_mut(id) { if cell_box.id() != new
\* { cell_box.set_id(new) } }: the tree changed, earlier results are dropped.
Rename(id, new) ==
    \E cell_box \in {GetPrim(view, id)} :
        /\ IsSome(cell_box)
        /\ ShapeId(view[Unwrap(cell_box)].shape) # Some(new)
        /\ view' = SetId(view, Unwrap(cell_box), new)
        /\ trace' = <<>>
        /\ UNCHANGED <<sysMsg, outputs, preBatch, model, folded, decision, applied, phase, host>>

NextLookup ==
    \/ \E id \in LookupIds : Lookup(id)
    \/ \E id \in LookupIds, new \in {NameId("a"), NameId("b")} : Rename(id, new)

SpecLookup == InitLookup /\ [][NextLookup]_vars

-----------------------------------------------------------------------------
(* The host: an App is configured, run, and its event loop handles window    *)
(* events and redraw requests until it exits or aborts.                      *)

InitHost ==
    /\ phase = "Idle"
    /\ host = HostNew
    /\ decision = "None"
    /\ applied = <<>>
    /\ model = GameCreate
    /\ folded = <<>>
    /\ view = <<>>
    /\ sysMsg = NoMsg
    /\ outputs = <<>>
    /\ preBatch = <<>>
    /\ trace = <<>>

HostOnly == UNCHANGED <<view, sysMsg, outputs, preBatch, trace, model, folded, decision,
                        applied, phase>>

\* comp.send_system_msg(msg): sysMsg is the last message the host sent.
HostSends(msg) ==
    /\ sysMsg' = msg
    /\ UNCHANGED <<view, outputs, preBatch, trace, model, folded, decision, applied, phase>>

WithMultisampling(samples) ==
    /\ host.pos = "builder"
    /\ \E r \in {MultisamplingOf(samples)} :
          host' = IF r.panic
                  THEN [host EXCEPT !.pos = "panicked",
                                    !.last = <<"with_multisampling", samples>>]
                  ELSE [host EXCEPT !.multisampling = r.value,
                                    !.last = <<"with_multisampling", samples>>]
    /\ HostOnly

WithExitByEscape(exit) ==
    /\ host.pos = "builder"
    /\ host' = [host EXCEPT !.exit_by_escape = exit, !.last = <<"with_exit_by_escape", exit>>]
    /\ HostOnly

WithFont ==
    /\ host.pos = "builder"
    /\ host' = [host EXCEPT !.font = Some("font"), !.last = <<"with_font">>]
    /\ HostOnly

\* run_with_prerender up to event_loop.run.
Run(built, init, loaded) ==
    /\ host.pos = "builder"
    /\ \E calls \in {StartCalls(built, init, IsSome(host.font), loaded)} :
          host' = [host EXCEPT
                     !.last = <<"run">>,
                     !.calls = calls,
                     !.mouse = MouseControllerNew,
                     !.pos = IF Failed(calls) THEN "returned" ELSE "loop",
                     !.result = IF ~Failed(calls) THEN None
                                ELSE IF built # "ok"
                                     THEN Some(IF built = "build_windowed"
                                               THEN "CreationError" ELSE "ContextError")
                                     ELSE Some("RendererError")]
    /\ HostOnly

Resized(size) ==
    /\ host.pos = "loop"
    /\ HostSends([kind |-> "WindowResized", event |-> size])
    /\ host' = [host EXCEPT !.event = <<"Resized">>]

CloseRequested ==
    /\ host.pos = "loop"
    /\ host' = [host EXCEPT !.pos = "exited", !.event = <<"CloseRequested">>]
    /\ HostOnly

ReceivedCharacter(ch) ==
    /\ host.pos = "loop"
    /\ HostSends([kind |-> "Char", event |-> ch])
    /\ host' = [host EXCEPT !.event = <<"ReceivedCharacter">>]

\* convert_keyboard_event: the glutin key code, if any, as the controller's
\* key code of the same name, with the scan code.
ConvertKeyboardEvent(scancode, keycode) == [scancode |-> scancode, keycode |-> keycode]

\* The message KeyboardController::pressed_comp sends.
KeyPressedComp(event) == [kind |-> "KeyDown", event |-> event]

\* The message KeyboardController::released_comp sends.
KeyReleasedComp(event) == [kind |-> "KeyUp", event |-> event]

\* Mutant of KeyboardInput: Escape is forwarded before the loop exits.
KeyboardInputForwardsEscape(keycode, pressed) ==
    /\ host.pos = "loop"
    /\ HostSends(IF pressed
                 THEN KeyPressedComp(ConvertKeyboardEvent(28, keycode))
                 ELSE KeyReleasedComp(ConvertKeyboardEvent(28, keycode)))
    /\ host' = [host EXCEPT !.pos = IF keycode = <<"Escape">> /\ host.exit_by_escape
                                    THEN "exited" ELSE "loop",
                            !.event = <<"KeyboardInput", keycode, pressed>>]

\* The two KeyboardInput arms: Escape under exit_by_escape leaves the loop,
\* any other event goes to the keyboard controller.
KeyboardInput(keycode, pressed) ==
    /\ host.pos = "loop"
    /\ IF keycode = <<"Escape">> /\ host.exit_by_escape
       THEN /\ host' = [host EXCEPT !.pos = "exited",
                                    !.event = <<"KeyboardInput", keycode, pressed>>]
            /\ HostOnly
       ELSE /\ HostSends(IF pressed
                         THEN KeyPressedComp(ConvertKeyboardEvent(28, keycode))
                         ELSE KeyReleasedComp(ConvertKeyboardEvent(28, keycode)))
            /\ host' = [host EXCEPT !.event = <<"KeyboardInput", keycode, pressed>>]

CursorMoved(x, y) ==
    /\ host.pos = "loop"
    /\ host' = [host EXCEPT !.mouse = UpdatePos(host.mouse, x, y),
                         !.last = <<"update_pos", x, y>>,
                         !.event = <<"CursorMoved">>]
    /\ HostOnly

MouseInput(button) ==
    /\ host.pos = "loop"
    /\ HostSends(PressedComp(host.mouse, button))
    /\ host' = [host EXCEPT !.event = <<"MouseInput">>]

MouseWheel(delta) ==
    /\ host.pos = "loop"
    /\ HostSends(MouseScrollComp(host.mouse, delta))
    /\ host' = [host EXCEPT !.event = <<"MouseWheel">>]

\* The RedrawRequested handler: the hook, the Draw message, then the view
\* query and the renderer. A failed render or swap_buffers panics (expect).
\* The message sent is the last send_system_msg of the frame, if any.
RedrawRequested(hook, updated, rendered, swapped) ==
    /\ host.pos = "loop"
    /\ host.ticks < MaxTicks
    /\ \E tick \in {IF hook = "Exit" THEN <<>> ELSE TickCalls(updated, rendered, swapped)} :
       \E frame \in {RedrawCalls(hook, host.since, tick)} :
       \E sent \in {SelectSeq(frame, LAMBDA c : c.call = "send_system_msg")} :
          /\ host' = [host EXCEPT
                        !.tick = tick,
                        !.frame = frame,
                        !.event = <<"RedrawRequested", hook>>,
                        !.calls = @ \o tick,
                        !.ticks = @ + 1,
                        !.since = IF sent = <<>> THEN @ ELSE 0,
                        !.pos = IF hook = "Exit" THEN "exited"
                                ELSE IF Failed(tick) THEN "aborted" ELSE "loop"]
          /\ IF sent = <<>>
             THEN HostOnly
             ELSE HostSends([kind |-> sent[Len(sent)].ret[1],
                             event |-> sent[Len(sent)].ret[2]])

\* Time passes between two events of the loop.
Wait ==
    /\ host.pos = "loop"
    /\ host.since < MaxWait
    /\ host' = [host EXCEPT !.since = @ + 1]
    /\ HostOnly

NextHost ==
    \/ \E samples \in 0..MaxSamples : WithMultisampling(samples)
    \/ \E exit \in BOOLEAN : WithExitByEscape(exit)
    \/ WithFont
    \/ \E built \in {"ok", "build_windowed", "make_current"}, init, loaded \in BOOLEAN :
          Run(built, init, loaded)
    \/ Resized(<<800, 600>>)
    \/ CloseRequested
    \/ ReceivedCharacter("x")
    \/ \E keycode \in {<<"Escape">>, <<"Enter">>, <<>>}, pressed \in BOOLEAN :
          KeyboardInput(keycode, pressed)
    \/ \E p \in Points : CursorMoved(p[1], p[2])
    \/ MouseInput("Left")
    \/ MouseWheel(<<0, 1>>)
    \/ \E hook \in {"Continue", "Exit"}, updated, swapped \in BOOLEAN,
          rendered \in {"true", "false", "err"} :
          RedrawRequested(hook, updated, rendered, swapped)

SpecHost == InitHost /\ [][NextHost]_vars

\* The event loop of a run of App::new() that started, with time passing.
LoopStarted ==
    [HostNew EXCEPT !.last = <<"run">>,
                    !.calls = StartCalls("ok", TRUE, FALSE, TRUE),
                    !.pos = "loop"]

InitLoop ==
    /\ phase = "Idle"
    /\ host = LoopStarted
    /\ decision = "None"
    /\ applied = <<>>
    /\ model = GameCreate
    /\ folded = <<>>
    /\ view = <<>>
    /\ sysMsg = NoMsg
    /\ outputs = <<>>
    /\ preBatch = <<>>
    /\ trace = <<>>

NextLoop ==
    \/ Wait
    \/ Resized(<<800, 600>>)
    \/ CloseRequested
    \/ ReceivedCharacter("x")
    \/ \E keycode \in {<<"Escape">>, <<"Enter">>, <<>>}, pressed \in BOOLEAN :
          KeyboardInput(keycode, pressed)
    \/ \E p \in Points : CursorMoved(p[1], p[2])
    \/ MouseInput("Left")
    \/ MouseWheel(<<0, 1>>)
    \/ \E hook \in {"Continue", "Exit"}, updated, swapped \in BOOLEAN,
          rendered \in {"true", "false", "err"} :
          RedrawRequested(hook, updated, rendered, swapped)

SpecLoop == InitLoop /\ [][NextLoop]_vars

-----------------------------------------------------------------------------
(* Properties of dispatch *)

Dispatched == sysMsg # NoMsg

\* The messages the last call appended.
Appended == SubSeq(outputs, Len(preBatch) + 1, Len(outputs))

Occurrences(seq, x) == Cardinality({i \in DOMAIN seq : seq[i] = x})

Hit(n) ==
    /\ sysMsg.kind \in {"MouseDown", "MouseScroll"}
    /\ PrimIntersect(view[n], sysMsg.event.pos[1], sysMsg.event.pos[2])

RECURSIVE PreOrder(_, _)
RECURSIVE PreOrderOfList(_, _, _)
\* The nodes of the subtree of n, a node before its descendants and an
\* earlier child's subtree before a later child's.
PreOrder(tree, n) == <<n>> \o PreOrderOfList(tree, tree[n].children, 1)

PreOrderOfList(tree, children, i) ==
    IF i > Len(children) THEN <<>>
    ELSE PreOrder(tree, children[i]) \o PreOrderOfList(tree, children, i + 1)

RECURSIVE ConcatOver(_, _, _)
\* F(order[i]) \o F(order[i+1]) \o ...
ConcatOver(F(_), order, i) ==
    IF i > Len(order) THEN <<>>
    ELSE F(order[i]) \o ConcatOver(F, order, i + 1)

\* C1: one send_system_msg on the root runs the listener step of every node
\* of the tree exactly once, whatever the hit tests at the node or above it.
C1_EveryNodeOnce ==
    Dispatched =>
        /\ Len(trace) = Cardinality(DOMAIN view)
        /\ \A n \in DOMAIN view : Occurrences(trace, n) = 1

\* A three-node chain whose root and middle node are both missed by a
\* MouseDown, and whose last node was still processed.
C1_Witness ==
    /\ Dispatched
    /\ sysMsg.kind = "MouseDown"
    /\ DOMAIN view = 1..3
    /\ view[1].children = <<2>> /\ view[2].children = <<3>>
    /\ ~Hit(1) /\ ~Hit(2) /\ Hit(3)
    /\ Occurrences(trace, 3) = 1

\* C2: on a MouseDown, a node that contains the press position pushes only
\* messages of its MouseDown listeners, a node that does not contain it pushes
\* only messages of its Blur listeners, and no other listener kind fires.
C2_MouseDownGating ==
    (Dispatched /\ sysMsg.kind = "MouseDown") =>
        \A k \in DOMAIN Appended :
            LET m == Appended[k]
            IN /\ m.prim \in DOMAIN view
               /\ Hit(m.prim) =>
                    /\ m.variant = "OnMouseDown"
                    /\ "ON_MOUSE_DOWN" \in DOMAIN view[m.prim].listeners
                    /\ \E l \in DOMAIN view[m.prim].listeners["ON_MOUSE_DOWN"] :
                          view[m.prim].listeners["ON_MOUSE_DOWN"][l].func = m.func
               /\ ~Hit(m.prim) =>
                    /\ m.variant = "OnBlur"
                    /\ "ON_BLUR" \in DOMAIN view[m.prim].listeners
                    /\ \E l \in DOMAIN view[m.prim].listeners["ON_BLUR"] :
                          view[m.prim].listeners["ON_BLUR"][l].func = m.func

\* A press that hits one node holding listeners of both kinds and misses
\* another such node: the first answered MouseDown, the second Blur.
C2_Witness ==
    /\ Dispatched
    /\ sysMsg.kind = "MouseDown"
    /\ \E a, b \in DOMAIN view :
          /\ Hit(a) /\ ~Hit(b)
          /\ {"ON_MOUSE_DOWN", "ON_BLUR"} \subseteq DOMAIN view[a].listeners
          /\ {"ON_MOUSE_DOWN", "ON_BLUR"} \subseteq DOMAIN view[b].listeners
          /\ \E i, j \in DOMAIN Appended :
                /\ Appended[i].prim = a /\ Appended[i].variant = "OnMouseDown"
                /\ Appended[j].prim = b /\ Appended[j].variant = "OnBlur"

OwnMessages(n) == ListenerStep(view[n], n, sysMsg)

\* C3: the batch after a dispatch is the batch handed in followed by the
\* messages of the nodes in depth-first pre-order.
C3_PreOrderAppend ==
    Dispatched =>
        outputs = preBatch \o ConcatOver(OwnMessages, PreOrder(view, 1), 1)

\* A root with two children, all three pushing a message onto a non-empty batch.
C3_Witness ==
    /\ Dispatched
    /\ preBatch # <<>>
    /\ DOMAIN view = 1..3
    /\ view[1].children = <<2, 3>>
    /\ \A n \in 1..3 : OwnMessages(n) # <<>>
    /\ OwnMessages(2) # OwnMessages(3)

KeyOf(kind) ==
    CASE kind = "MouseDown" -> "ON_MOUSE_DOWN"
      [] kind = "MouseScroll" -> "ON_MOUSE_SCROLL"
      [] kind = "KeyDown" -> "ON_KEY_DOWN"
      [] kind = "KeyUp" -> "ON_KEY_UP"
      [] kind = "Char" -> "ON_INPUT_CHAR"
      [] kind = "Draw" -> "DRAW"
      [] kind = "WindowResized" -> "WINDOW_RESIZED"

VariantOf(key) ==
    CASE key = "ON_MOUSE_DOWN" -> "OnMouseDown"
      [] key = "ON_BLUR" -> "OnBlur"
      [] key = "ON_MOUSE_SCROLL" -> "OnMouseScroll"
      [] key = "ON_KEY_DOWN" -> "OnKeyDown"
      [] key = "ON_KEY_UP" -> "OnKeyUp"
      [] key = "ON_INPUT_CHAR" -> "OnInputChar"
      [] key = "DRAW" -> "Draw"
      [] key = "WINDOW_RESIZED" -> "WindowResized"

\* The key an event that reached node n fires, or "none" when the event does
\* not pass its gating at n.
FiredKey(n) ==
    CASE sysMsg.kind = "MouseDown" -> IF Hit(n) THEN "ON_MOUSE_DOWN" ELSE "ON_BLUR"
      [] sysMsg.kind = "MouseScroll" -> IF Hit(n) THEN "ON_MOUSE_SCROLL" ELSE "none"
      [] OTHER -> KeyOf(sysMsg.kind)

ListUnder(n, key) ==
    IF key \in DOMAIN view[n].listeners THEN view[n].listeners[key] ELSE <<>>

PrimHanded(n) == IF sysMsg.kind \in {"Draw", "WindowResized"} THEN 0 ELSE n

\* One message of each listener stored under the fired key, in list order.
AllUnderKey(n) ==
    LET list == ListUnder(n, FiredKey(n))
    IN [i \in DOMAIN list |-> Call(list[i], PrimHanded(n), sysMsg.event)]

\* One message of each listener stored under the fired key whose variant is
\* the key's own, in list order.
MatchingUnderKey(n) ==
    LET key == FiredKey(n)
        list == SelectSeq(ListUnder(n, key), LAMBDA l : l.variant = VariantOf(key))
    IN [i \in DOMAIN list |-> Call(list[i], PrimHanded(n), sysMsg.event)]

\* C4 as claimed: every listener stored under the fired key is invoked, in
\* list order, and the node appends as many messages as that list is long.
C4_AllListenersFire ==
    Dispatched =>
        Appended = ConcatOver(AllUnderKey, PreOrder(view, 1), 1)

\* C4 as amended: every listener stored under the fired key whose variant is
\* that key's variant is invoked, in list order, each contributing exactly one
\* message; a listener of another variant stored under the key is skipped.
C4_MatchingListenersFire ==
    Dispatched =>
        Appended = ConcatOver(MatchingUnderKey, PreOrder(view, 1), 1)

\* A MouseDown reaching a node whose fired list holds two listeners of the
\* key's variant, both of which fired, and a node it hit whose ON_MOUSE_DOWN
\* list holds a listener of another variant, which was skipped.
C4_Witness ==
    /\ Dispatched
    /\ sysMsg.kind = "MouseDown"
    /\ \E n \in DOMAIN view :
          /\ Len(MatchingUnderKey(n)) = 2
          /\ Len(AllUnderKey(n)) = 2
    /\ \E n \in DOMAIN view :
          /\ Hit(n)
          /\ Len(MatchingUnderKey(n)) = 1
          /\ Len(AllUnderKey(n)) = 2
    /\ Len(Appended) >= 3

-----------------------------------------------------------------------------
(* Properties of the MVU cycle *)

CycleStep == sysMsg = NoMsg /\ sysMsg' # NoMsg

\* The messages the listeners of a tree push for an event, node by node in
\* depth-first pre-order.
ListenerMessages(tree, msg) ==
    ConcatOver(LAMBDA n : ListenerStep(tree[n], n, msg), PreOrder(tree, 1), 1)

\* The greatest ChangeView a log of update calls holds.
MaxDemand(log) ==
    IF \E i \in DOMAIN log : log[i].cv = "Rebuild" THEN "Rebuild"
    ELSE IF \E i \in DOMAIN log : log[i].cv = "Modify" THEN "Modify"
    ELSE "None"

\* C5: in one cycle the translator's message (if any) goes through update
\* first, then every listener message in dispatch order, each update call
\* starting from the state the previous one left; the decision is the
\* greatest ChangeView these calls returned, and None when there was no message.
C5_FoldOrder ==
    [][CycleStep =>
         LET batch == ModelSystemUpdate(model, sysMsg') \o ListenerMessages(view, sysMsg')
         IN /\ Len(folded') = Len(batch)
            /\ \A i \in DOMAIN folded' :
                  /\ folded'[i].msg = batch[i]
                  /\ folded'[i].before =
                        IF i = 1 THEN model
                        ELSE ModelUpdate(folded'[i - 1].before, folded'[i - 1].msg).game
                  /\ folded'[i].cv = ModelUpdate(folded'[i].before, folded'[i].msg).cv
            /\ decision' = MaxDemand(folded')
            /\ (batch = <<>> => decision' = "None")]_vars

\* A cycle that folded the translator's message and then three listener
\* messages, whose greatest ChangeView was returned neither first nor last.
C5_Witness ==
    /\ sysMsg # NoMsg
    /\ Len(preBatch) = 1
    /\ Len(folded) = 4
    /\ folded[1].msg = preBatch[1]
    /\ folded[1].cv = "None"
    /\ folded[2].cv = "Modify"
    /\ folded[3].cv = "Rebuild"
    /\ folded[4].cv = "None"
    /\ decision = "Rebuild"

\* The Model as the fold of a cycle left it.
FoldedModel(m, log) ==
    IF log = <<>> THEN m ELSE ModelUpdate(log[Len(log)].before, log[Len(log)].msg).game

\* C6: a cycle calls the build step exactly when its decision is Rebuild, the
\* patch step exactly when it is Modify, neither when it is None, and never
\* both; the tree after the cycle is the one that single step left.
C6_OneTerminalAction ==
    [][CycleStep =>
         LET m == FoldedModel(model, folded')
         IN /\ Len(applied') <= 1
            /\ (applied' = <<"build">>) <=> (decision' = "Rebuild")
            /\ (applied' = <<"modify">>) <=> (decision' = "Modify")
            /\ (applied' = <<>>) <=> (decision' = "None")
            /\ decision' = "Rebuild" => view' = ModelBuildView(m) /\ model' = m
            /\ decision' = "Modify" =>
                  /\ view' = ModelModifyView(m, view).view
                  /\ model' = ModelModifyView(m, view).game
            /\ decision' = "None" => view' = view /\ model' = m]_vars

\* A Draw cycle of the Game that decided Modify and patched the tree: the
\* field group carries the zoom the tick reached, and nothing was rebuilt.
C6_Witness ==
    /\ sysMsg # NoMsg
    /\ IsGame(model)
    /\ sysMsg.kind = "Draw"
    /\ decision = "Modify"
    /\ applied = <<"modify">>
    /\ AnimateIsTransient(model.canvas.scale_factor)
    /\ view[2].shape.transform.scale = AnimateVal(model.canvas.scale_factor)

-----------------------------------------------------------------------------
(* Properties of the ChangeView combination *)

\* C7: the combination is associative, has None as identity on both sides,
\* gives Rebuild whenever one side is Rebuild, and so combining a batch in
\* two groups gives what combining it in one run gives.
C7_CombineLaws ==
    /\ \A a, b, c \in ChangeView :
          ChangeViewMax(ChangeViewMax(a, b), c) = ChangeViewMax(a, ChangeViewMax(b, c))
    /\ \A a \in ChangeView :
          /\ ChangeViewMax("None", a) = a
          /\ ChangeViewMax(a, "None") = a
          /\ ChangeViewMax("Rebuild", a) = "Rebuild"
          /\ ChangeViewMax(a, "Rebuild") = "Rebuild"
    /\ trace # <<>> => decision = FoldChangeView(outputs, 1, "None")

\* A batch of four with a Rebuild in its first group and a Modify in its
\* second, split in the middle, combined to Rebuild.
C7_Witness ==
    /\ trace = <<2>>
    /\ Len(outputs) = 4
    /\ outputs[1] = "Rebuild"
    /\ outputs[4] = "Modify"
    /\ decision = "Rebuild"

-----------------------------------------------------------------------------
(* The animation harness: a Game whose Animate values are drawn from a      *)
(* bounded set receives Msg::Draw(elapsed) through Game::update.             *)

AnimateInputs ==
    {AnimateNew(v, t, s) : v \in {0, 10}, t \in {0, 10}, s \in {0, 3, 5}}

SlowInputs == {a \in AnimateInputs : a.speed = 3}

SkewBoxInputs ==
    {None} \cup {Some([id |-> BoxId(0, 2), row |-> 0, col |-> 3,
                       x |-> a, y |-> AnimateNew(0, 0, 3)]) : a \in SlowInputs}

LastTwo(log) == IF Len(log) > 2 THEN SubSeq(log, Len(log) - 1, Len(log)) ELSE log

InitAnim ==
    /\ phase = "Idle"
    /\ host = HostNew
    /\ decision = "None"
    /\ applied = <<>>
    /\ \E sf \in AnimateInputs, x \in AnimateInputs, y \in SlowInputs, sb \in SkewBoxInputs :
          model = [GameCreate EXCEPT !.canvas.scale_factor = sf,
                                     !.docker.x = x,
                                     !.docker.y = y,
                                     !.docker.skew_box = sb]
    /\ folded = <<>>
    /\ view = <<>>
    /\ sysMsg = NoMsg
    /\ outputs = <<>>
    /\ preBatch = <<>>
    /\ trace = <<>>

\* One frame tick folded into the Game.
Tick(elapsed) ==
    LET msg == [type |-> "Draw", elapsed |-> elapsed]
        res == GameUpdate(model, msg)
    IN /\ model' = res.game
       /\ folded' = LastTwo(Append(folded, [msg |-> msg, cv |-> res.cv, before |-> model]))
       /\ UNCHANGED <<view, sysMsg, outputs, preBatch, trace, decision, applied, phase, host>>

NextAnim == \E elapsed \in 0..MaxElapsed : Tick(elapsed)

SpecAnim == InitAnim /\ [][NextAnim]_vars

NextAnimLive == \E elapsed \in 1..MaxElapsed : Tick(elapsed)

\* The host loop redraws forever; every tick here takes at least one time unit.
SpecAnimLive == InitAnim /\ [][NextAnimLive]_vars /\ WF_vars(NextAnimLive)

-----------------------------------------------------------------------------
(* The Game harness: the messages of the sokoban Game go through             *)
(* Game::update one at a time; the caller keeps the last message and what    *)
(* update returned for it. The Game is created over one of two sets of       *)
(* levels.                                                                   *)

\* The messages of the Game: frame ticks of 0 and 80 time units, scrolls,
\* every key the Game distinguishes and one it does not, two window sizes and
\* Msg::None.
GameMsgs ==
    {[type |-> "Draw", elapsed |-> e] : e \in {0, 80}}
    \cup {[type |-> "Scroll", delta |-> d] : d \in {-10, -1, 1, 10}}
    \cup {[type |-> "KeyDown", code |-> c] :
            c \in {"Left", "Right", "Up", "Down", "Enter", "Backspace", "A"}}
    \cup {[type |-> "Resize", width |-> 4800, height |-> 2400],
          [type |-> "Resize", width |-> CanvasWidth, height |-> CanvasHeight],
          [type |-> "None"]}

InitGame ==
    /\ phase = "Idle"
    /\ host = HostNew
    /\ decision = "None"
    /\ applied = <<>>
    /\ model \in {GameCreate, ResetDocker([GameCreate EXCEPT !.level = LevelOver(WideGrids)])}
    /\ folded = <<>>
    /\ view = <<>>
    /\ sysMsg = NoMsg
    /\ outputs = <<>>
    /\ preBatch = <<>>
    /\ trace = <<>>

\* game.update(msg); the zoom a scroll may reach is bounded.
Update(msg) ==
    /\ msg.type = "Scroll" =>
          AnimateVal(model.canvas.scale_factor) + msg.delta * 100 <= MaxScaleFactor
    /\ \E res \in {GameUpdate(model, msg)} :
          /\ model' = res.game
          /\ folded' = <<[msg |-> msg, cv |-> res.cv]>>
    /\ UNCHANGED <<view, sysMsg, outputs, preBatch, trace, decision, applied, phase, host>>

NextGame == \E msg \in GameMsgs : Update(msg)

SpecGame == InitGame /\ [][NextGame]_vars

\* The input falls silent in state NextLevel: from here on the Game receives
\* frame ticks only.
FallSilent ==
    /\ phase = "Idle"
    /\ model.state = "NextLevel"
    /\ phase' = "Silent"
    /\ UNCHANGED <<view, sysMsg, outputs, preBatch, trace, model, folded, decision,
                   applied, host>>

\* A frame tick of positive elapsed time after the input fell silent.
SilentTick(elapsed) ==
    /\ phase = "Silent"
    /\ \E res \in {GameUpdate(model, [type |-> "Draw", elapsed |-> elapsed])} :
          /\ model' = res.game
          /\ folded' = <<[msg |-> [type |-> "Draw", elapsed |-> elapsed], cv |-> res.cv]>>
    /\ UNCHANGED <<view, sysMsg, outputs, preBatch, trace, decision, applied, phase, host>>

SilentTicks == \E elapsed \in {40, 80} : SilentTick(elapsed)

\* The messages before the input falls silent: frame ticks, the scrolls of
\* one notch, the keys that push along the row and Enter.
AdvanceMsgs ==
    {m \in GameMsgs :
        \/ m.type = "Draw" /\ m.elapsed > 0
        \/ m.type = "Scroll" /\ m.delta \in {-1, 1}
        \/ m.type = "KeyDown" /\ m.code \in {"Left", "Right", "Enter"}}

NextAdvance ==
    \/ phase = "Idle" /\ \E msg \in AdvanceMsgs : Update(msg)
    \/ FallSilent
    \/ SilentTicks

\* The host loop redraws forever, so the ticks keep arriving.
SpecAdvance == InitGame /\ [][NextAdvance]_vars /\ WF_vars(SilentTicks)

-----------------------------------------------------------------------------
(* Properties of Animate *)

\* The Animate values of a Game, in a fixed order.
Animates(game) ==
    <<game.canvas.scale_factor, game.docker.x, game.docker.y>>
    \o (IF IsSome(game.docker.skew_box)
        THEN <<Unwrap(game.docker.skew_box).x, Unwrap(game.docker.skew_box).y>>
        ELSE <<>>)

LastCall == folded[Len(folded)]

\* The last update call was an animate step of the whole Game.
Animated ==
    /\ folded # <<>>
    /\ LastCall.msg.type = "Draw"
    /\ GameIsTransient(LastCall.before)

\* What the claim says one animate(elapsed) makes of a value.
Stepped(a, elapsed) ==
    IF Abs(a.target - a.value) <= a.speed * elapsed
    THEN [value |-> a.target, target |-> a.target, speed |-> a.speed]
    ELSE [value |-> IF a.target > a.value
                    THEN a.value + a.speed * elapsed
                    ELSE a.value - a.speed * elapsed,
          target |-> a.target, speed |-> a.speed]

\* C8: animate(elapsed) moves current toward target by rate * elapsed, and
\* makes it exactly the target (Settled) when the remaining distance is at most
\* that step; this holds of every Animate value the Game animates on a tick.
C8_AnimateStep ==
    Animated =>
        /\ Len(Animates(model)) = Len(Animates(LastCall.before))
        /\ \A i \in DOMAIN Animates(model) :
              /\ Animates(model)[i] = Stepped(Animates(LastCall.before)[i], LastCall.msg.elapsed)
              /\ (Abs(Animates(LastCall.before)[i].target - Animates(LastCall.before)[i].value)
                    <= Animates(LastCall.before)[i].speed * LastCall.msg.elapsed)
                 => ~AnimateIsTransient(Animates(model)[i])

\* docker.y went 0 -> 5 (Transient) -> 10 (Settled) at rate 5 in two ticks of
\* one time unit each.
C8_Witness ==
    /\ Len(folded) = 2
    /\ folded[1].msg = [type |-> "Draw", elapsed |-> 1]
    /\ folded[2].msg = [type |-> "Draw", elapsed |-> 1]
    /\ folded[1].before.docker.x = AnimateNew(0, 10, 5)
    /\ folded[2].before.docker.x = AnimateNew(5, 10, 5)
    /\ AnimateIsTransient(folded[2].before.docker.x)
    /\ model.docker.x = AnimateNew(10, 10, 5)
    /\ ~AnimateIsTransient(model.docker.x)

Between(lo, x, hi) == (lo <= x /\ x <= hi) \/ (hi <= x /\ x <= lo)

\* C9: an animate step never overshoots: the new current lies between the
\* old current and the target, the target is unchanged, and a value that was
\* at its target stays there.  (Over a run of animate steps the interval from
\* current to target only shrinks, so current stays between its first value
\* and the target.)
C9_NoOvershoot ==
    (folded # <<>> /\ LastCall.msg.type = "Draw") =>
        /\ Len(Animates(model)) = Len(Animates(LastCall.before))
        /\ \A i \in DOMAIN Animates(model) :
              LET old == Animates(LastCall.before)[i]
                  new == Animates(model)[i]
              IN /\ new.target = old.target
                 /\ Between(old.value, new.value, old.target)
                 /\ (old.value = old.target) => (new.value = old.target)

\* A step that would have passed the target (9 -> 10 at rate 3 over two time
\* units) ended exactly on it, and a settled value sat through a tick.
C9_Witness ==
    /\ Animated
    /\ LastCall.msg.elapsed = 2
    /\ LastCall.before.docker.x = AnimateNew(9, 10, 3)
    /\ model.docker.x = AnimateNew(10, 10, 3)
    /\ ~AnimateIsTransient(LastCall.before.docker.y)
    /\ model.docker.y = LastCall.before.docker.y

\* C10: under ticks of at least one time unit, a Transient value with a
\* positive rate eventually is Settled.
C10_EventuallySettled ==
    /\ (AnimateIsTransient(model.canvas.scale_factor) /\ model.canvas.scale_factor.speed > 0)
          ~> ~AnimateIsTransient(model.canvas.scale_factor)
    /\ (AnimateIsTransient(model.docker.x) /\ model.docker.x.speed > 0)
          ~> ~AnimateIsTransient(model.docker.x)
    /\ (AnimateIsTransient(model.docker.y) /\ model.docker.y.speed > 0)
          ~> ~AnimateIsTransient(model.docker.y)

\* A value that needed more than one tick has arrived.
C10_Witness ==
    /\ Len(folded) = 2
    /\ AnimateIsTransient(folded[1].before.docker.x)
    /\ AnimateIsTransient(folded[2].before.docker.x)
    /\ folded[2].before.docker.x.value # folded[1].before.docker.x.value
    /\ ~AnimateIsTransient(model.docker.x)

\* C11: two consecutive animate steps of a and b time units leave every
\* Animate value of the Game where one step of a + b time units from the same
\* start would have left it, current and Settled/Transient state alike.
C11_TickRateIndependent ==
    (Len(folded) = 2 /\ folded[1].msg.type = "Draw" /\ folded[2].msg.type = "Draw") =>
        /\ Len(Animates(model)) = Len(Animates(folded[1].before))
        /\ \A i \in DOMAIN Animates(model) :
              LET start == Animates(folded[1].before)[i]
                  whole == Stepped(start, folded[1].msg.elapsed + folded[2].msg.elapsed)
              IN /\ Animates(model)[i] = whole
                 /\ AnimateIsTransient(Animates(model)[i]) = AnimateIsTransient(whole)

\* docker.x went 0 -> 3 -> 9 toward 10 at rate 3 in ticks of one and two time
\* units, where one tick of three time units also ends: still Transient.
C11_Witness ==
    /\ Len(folded) = 2
    /\ folded[1].msg = [type |-> "Draw", elapsed |-> 1]
    /\ folded[2].msg = [type |-> "Draw", elapsed |-> 2]
    /\ folded[1].before.docker.x = AnimateNew(0, 10, 3)
    /\ folded[2].before.docker.x = AnimateNew(3, 10, 3)
    /\ model.docker.x = AnimateNew(9, 10, 3)
    /\ AnimateIsTransient(model.docker.x)

\* The update call of a cycle of the Game that folded exactly one message of
\* the given type.
OnlyUpdate(type) ==
    /\ sysMsg # NoMsg
    /\ IsGame(model)
    /\ Len(folded) = 1
    /\ folded[1].msg.type = type

\* C12: set(value) leaves current and target both at value, whatever they
\* were, so the value is Settled at once and an animate step of any length
\* leaves it alone; a tick of the Game does not move a zoom that is Settled.
C12_SetSettles ==
    /\ OnlyUpdate("Scroll") =>
          LET sf == model.canvas.scale_factor
              old == folded[1].before.canvas.scale_factor
              value == Max(AnimateVal(old) + folded[1].msg.delta * 100, 10)
          IN /\ sf.value = value
             /\ sf.target = value
             /\ ~AnimateIsTransient(sf)
             /\ \A elapsed \in 0..MaxElapsed : AnimateAnimate(sf, elapsed) = sf
    /\ (OnlyUpdate("Draw") /\ ~AnimateIsTransient(folded[1].before.canvas.scale_factor)) =>
          model.canvas.scale_factor = folded[1].before.canvas.scale_factor

\* A scroll that found the zoom on its way from 0.01 to 1.0 and set it.
C12_Witness ==
    /\ OnlyUpdate("Scroll")
    /\ AnimateIsTransient(folded[1].before.canvas.scale_factor)
    /\ folded[1].before.canvas.scale_factor.target = 1000
    /\ folded[1].msg.delta = 10
    /\ model.canvas.scale_factor.value = 1010
    /\ model.canvas.scale_factor.target = 1010

\* The one update call of the cycle was a move_docker that took the docker
\* to another cell.
DockerMoved ==
    /\ OnlyUpdate("KeyDown")
    /\ folded[1].msg.code \in {"Left", "Right", "Up", "Down"}
    /\ <<model.docker.row, model.docker.col>>
          # <<folded[1].before.docker.row, folded[1].before.docker.col>>

\* C13: to(new_target) changes the target only: after a move the docker's x
\* and y keep their current value and rate and aim at the new cell, each is
\* Transient exactly when its new target differs from its current value, and
\* a Settled value told to go where it is stays Settled.
C13_ToKeepsCurrent ==
    DockerMoved =>
        LET old == folded[1].before.docker
            new == model.docker
        IN /\ new.x = [old.x EXCEPT !.target = CellX(model, new.col)]
           /\ new.y = [old.y EXCEPT !.target = CellY(model, new.row)]
           /\ AnimateIsTransient(new.x) <=> (CellX(model, new.col) # AnimateVal(old.x))
           /\ AnimateIsTransient(new.y) <=> (CellY(model, new.row) # AnimateVal(old.y))
           /\ (~AnimateIsTransient(old.y) /\ CellY(model, new.row) = AnimateVal(old.y))
                 => new.y = old.y

\* A step to the right: x keeps its value and aims one cell further
\* (Transient); y was told to go where it is and stays Settled.
C13_Witness ==
    /\ DockerMoved
    /\ model.docker.col = folded[1].before.docker.col + 1
    /\ AnimateVal(model.docker.x) = AnimateVal(folded[1].before.docker.x)
    /\ model.docker.x.target = AnimateVal(model.docker.x) + model.canvas.cell_size
    /\ AnimateIsTransient(model.docker.x)
    /\ model.docker.y = folded[1].before.docker.y
    /\ ~AnimateIsTransient(model.docker.y)

-----------------------------------------------------------------------------
(* Properties of the tree: rebuild and lookup *)

\* The identifiers the nodes of a tree carry.
IdsOf(tree) ==
    {Unwrap(ShapeId(tree[n].shape)) : n \in {k \in DOMAIN tree : IsSome(ShapeId(tree[k].shape))}}

\* C14: after a cycle that decided Rebuild the tree is the one the build step
\* returns for the state the cycle left, and a lookup by an identifier only
\* the previous tree carried finds nothing.
C14_RebuildDiscards ==
    [][(CycleStep /\ decision' = "Rebuild") =>
         \E fresh \in {ModelBuildView(model')} :
             /\ view' = fresh
             /\ \A id \in IdsOf(view) \ IdsOf(fresh) : GetPrim(view', id) = None]_vars

\* A level reset after a pushed box had been renamed box_0_3 by the patch
\* step: the rebuilt tree has the box back as box_0_2 and no box_0_3.
C14_Witness ==
    /\ OnlyUpdate("KeyDown")
    /\ folded[1].msg.code = "Backspace"
    /\ decision = "Rebuild"
    /\ applied = <<"build">>
    /\ IsSome(folded[1].before.docker.skew_box)
    /\ Unwrap(folded[1].before.docker.skew_box).id = BoxId(0, 3)
    /\ folded[1].before.level.cells[0][3] = "BoxOnPlace"
    /\ GetPrim(view, BoxId(0, 3)) = None
    /\ GetPrim(view, BoxId(0, 2)) # None

\* Node b is node a or lies below it.
RECURSIVE Descends(_, _, _)
Descends(tree, a, b) ==
    \/ a = b
    \/ \E i \in DOMAIN tree[a].children : Descends(tree, tree[a].children[i], b)

\* Node a comes before node b in depth-first pre-order: a is an ancestor of
\* b, or a lies under an earlier child than b of some common ancestor.
Precedes(tree, a, b) ==
    /\ a # b
    /\ \/ Descends(tree, a, b)
       \/ \E c \in DOMAIN tree : \E i, j \in DOMAIN tree[c].children :
             /\ i < j
             /\ Descends(tree, tree[c].children[i], a)
             /\ Descends(tree, tree[c].children[j], b)

Carriers(tree, id) ==
    {n \in DOMAIN tree : "id" \in DOMAIN tree[n].shape /\ tree[n].shape.id = <<id>>}

\* C15: a lookup returns a node that carries the identifier and that comes
\* before every other node carrying it in depth-first pre-order; lookups of
\* one identifier on an unchanged tree return the same node; an identifier no
\* node carries gives no match.
C15_FirstMatch ==
    \A i \in DOMAIN trace :
        LET id == trace[i].id
            found == trace[i].found
        IN /\ Carriers(view, id) = {} => found = None
           /\ Carriers(view, id) # {} =>
                 /\ IsSome(found)
                 /\ Unwrap(found) \in Carriers(view, id)
                 /\ \A m \in Carriers(view, id) \ {Unwrap(found)} :
                       Precedes(view, Unwrap(found), m)
           /\ \A j \in DOMAIN trace : trace[j].id = id => trace[j].found = found

\* Root 1 with children 2 and 3, node 4 under node 2; nodes 3 and 4 carry
\* "a". Two lookups of "a" both return node 4, a lookup of "c" nothing.
C15_Witness ==
    /\ Len(view) = 4
    /\ view[1].children = <<2, 3>>
    /\ view[2].children = <<4>>
    /\ Carriers(view, NameId("a")) = {3, 4}
    /\ Len(trace) = 2
    /\ trace[1] = [id |-> NameId("a"), found |-> Some(4)]
    /\ trace[2] = trace[1]

-----------------------------------------------------------------------------
(* Properties of the dispatch: the event kinds one by one *)

\* The messages of the last call that node n pushed.
PushedBy(n) == SelectSeq(Appended, LAMBDA m : m.prim = n)

\* The listeners of node n stored under a key that are of the key's variant.
OwnListeners(n, key) ==
    SelectSeq(ListUnder(n, key), LAMBDA l : l.variant = VariantOf(key))

\* C16: on a MouseScroll every pushed message comes from a MouseScroll
\* listener of a node that contains the scroll position; a node that does not
\* contain it pushes nothing, its Blur listeners included, and each of its
\* children is still processed.
C16_ScrollGating ==
    (Dispatched /\ sysMsg.kind = "MouseScroll") =>
        /\ \A k \in DOMAIN Appended :
              LET m == Appended[k]
              IN /\ m.prim \in DOMAIN view
                 /\ Hit(m.prim)
                 /\ m.variant = "OnMouseScroll"
                 /\ \E l \in DOMAIN ListUnder(m.prim, "ON_MOUSE_SCROLL") :
                       ListUnder(m.prim, "ON_MOUSE_SCROLL")[l].func = m.func
        /\ \A n \in DOMAIN view :
              /\ Hit(n) => Len(PushedBy(n)) = Len(OwnListeners(n, "ON_MOUSE_SCROLL"))
              /\ ~Hit(n) =>
                    /\ PushedBy(n) = <<>>
                    /\ \A c \in DOMAIN view[n].children :
                          Occurrences(trace, view[n].children[c]) = 1

\* A scroll at (30,30) misses a root rectangle that holds a Blur listener and
\* hits its child circle, whose scroll listener is the only one that fired.
C16_Witness ==
    /\ Dispatched
    /\ sysMsg.kind = "MouseScroll"
    /\ ~Hit(1)
    /\ ListUnder(1, "ON_BLUR") # <<>>
    /\ view[1].children = <<2>>
    /\ Hit(2)
    /\ ListUnder(2, "ON_MOUSE_SCROLL") # <<>>
    /\ Len(Appended) = 1
    /\ Appended[1].prim = 2
    /\ Appended[1].variant = "OnMouseScroll"

Unconditional == {"KeyDown", "KeyUp", "Char", "Draw", "WindowResized"}

\* The functions of the listeners of node n that the event kind names.
MatchingFuncs(n) ==
    LET list == OwnListeners(n, KeyOf(sysMsg.kind))
    IN [i \in DOMAIN list |-> list[i].func]

\* C17: on a KeyDown, KeyUp, Char, Draw or WindowResized the batch grows by
\* one message of every listener of the event's kind at every node, in
\* pre-order and whatever the nodes' shapes, and each listener was handed the
\* event's own payload.
C17_Unconditional ==
    (Dispatched /\ sysMsg.kind \in Unconditional) =>
        /\ [k \in DOMAIN Appended |-> Appended[k].func]
              = ConcatOver(MatchingFuncs, PreOrder(view, 1), 1)
        /\ \A k \in DOMAIN Appended :
              /\ Appended[k].event = sysMsg.event
              /\ Appended[k].variant = VariantOf(KeyOf(sysMsg.kind))

\* A KeyDown on a group holding two key listeners above a circle holding
\* one: all three fired with the key event.
C17_Witness ==
    /\ Dispatched
    /\ sysMsg.kind = "KeyDown"
    /\ DOMAIN view = 1..2
    /\ view[1].shape.kind = "Group"
    /\ view[2].shape.kind = "Circle"
    /\ [k \in DOMAIN Appended |-> Appended[k].func] = <<"k", "l", "k">>
    /\ \A k \in DOMAIN Appended : Appended[k].event = sysMsg.event

\* The registry keys an event kind can fire: a MouseDown fires ON_MOUSE_DOWN
\* where it hits and ON_BLUR where it misses.
KeysOf(kind) ==
    IF kind = "MouseDown" THEN {"ON_MOUSE_DOWN", "ON_BLUR"} ELSE {KeyOf(kind)}

\* The nodes that hold no listener the event could fire.
Silent == {n \in DOMAIN view : \A key \in KeysOf(sysMsg.kind) : ListUnder(n, key) = <<>>}

MessagesOf(n, key) ==
    LET list == OwnListeners(n, key)
    IN [i \in DOMAIN list |-> Call(list[i], n, sysMsg.event)]

PathNodes == {n \in DOMAIN view : view[n].shape.kind = "Path"}

\* C19: a node whose shape is a Path contains no pointer position: on a
\* MouseDown it pushes the messages of its Blur listeners and nothing else,
\* on a MouseScroll it pushes nothing, wherever the pointer is.
C19_PathNeverHit ==
    (Dispatched /\ sysMsg.kind \in {"MouseDown", "MouseScroll"}) =>
        \A n \in PathNodes :
            /\ ~Hit(n)
            /\ sysMsg.kind = "MouseDown" => PushedBy(n) = MessagesOf(n, "ON_BLUR")
            /\ sysMsg.kind = "MouseScroll" => PushedBy(n) = <<>>
            /\ \A k \in DOMAIN PushedBy(n) :
                  PushedBy(n)[k].variant \notin {"OnMouseDown", "OnMouseScroll"}

\* A MouseDown on a path that holds a MouseDown listener, a scroll listener
\* and two Blur listeners: the two Blur listeners fired.
C19_Witness ==
    /\ Dispatched
    /\ sysMsg.kind = "MouseDown"
    /\ \E n \in PathNodes :
          /\ OwnListeners(n, "ON_MOUSE_DOWN") # <<>>
          /\ OwnListeners(n, "ON_MOUSE_SCROLL") # <<>>
          /\ Len(PushedBy(n)) = 2
          /\ PushedBy(n)[1].func = "b" /\ PushedBy(n)[1].variant = "OnBlur"
          /\ PushedBy(n)[2].func = "e" /\ PushedBy(n)[2].variant = "OnBlur"

GroupNodes == {n \in DOMAIN view : view[n].shape.kind = "Group"}

\* The press position lies in the rectangle of node n.
InRect(n) ==
    /\ view[n].shape.x <= sysMsg.event.pos[1]
    /\ sysMsg.event.pos[1] <= view[n].shape.x + view[n].shape.w
    /\ view[n].shape.y <= sysMsg.event.pos[2]
    /\ sysMsg.event.pos[2] <= view[n].shape.y + view[n].shape.h

\* The tree of the scenario: a root group without listeners holding one
\* rectangle (0,0)-(20,20) whose only MouseDown listener is "a".
GroupOverRect ==
    /\ DOMAIN view = 1..2
    /\ view[1].shape = Group
    /\ view[1].listeners = <<>>
    /\ view[1].children = <<2>>
    /\ view[2].shape = Rect(0, 0, 20, 20)
    /\ [i \in DOMAIN OwnListeners(2, "ON_MOUSE_DOWN") |->
           OwnListeners(2, "ON_MOUSE_DOWN")[i].func] = <<"a">>

\* C20: on a MouseDown a group answers as a node the press missed (its Blur
\* listeners, never its MouseDown listeners), while every rectangle, below a
\* group or not, answers by its own geometry. In the scenario a press at
\* (10,10) yields the batch [A] and a press at (30,30) yields the messages of
\* the rectangle's Blur listeners, the empty batch when it has none.
C20_GroupNeverHit ==
    (Dispatched /\ sysMsg.kind = "MouseDown") =>
        /\ \A n \in GroupNodes : PushedBy(n) = MessagesOf(n, "ON_BLUR")
        /\ \A n \in DOMAIN view : view[n].shape.kind = "Rect" =>
              PushedBy(n) = IF InRect(n) THEN MessagesOf(n, "ON_MOUSE_DOWN")
                            ELSE MessagesOf(n, "ON_BLUR")
        /\ (GroupOverRect /\ preBatch = <<>>) =>
              /\ sysMsg.event.pos = <<10, 10>> =>
                    outputs = <<Call(Listener("OnMouseDown", "a"), 2, sysMsg.event)>>
              /\ sysMsg.event.pos = <<30, 30>> =>
                    /\ outputs = MessagesOf(2, "ON_BLUR")
                    /\ OwnListeners(2, "ON_BLUR") = <<>> => outputs = <<>>

\* The scenario after the press at (10,10): the batch is [A].
C20_Witness ==
    /\ Dispatched
    /\ sysMsg.kind = "MouseDown"
    /\ GroupOverRect
    /\ preBatch = <<>>
    /\ sysMsg.event.pos = <<10, 10>>
    /\ Len(outputs) = 1
    /\ outputs[1].func = "a"
    /\ outputs[1].prim = 2

\* The scenario after the press at (30,30) on a rectangle without Blur
\* listeners: the batch is empty.
C20_WitnessMiss ==
    /\ Dispatched
    /\ sysMsg.kind = "MouseDown"
    /\ GroupOverRect
    /\ OwnListeners(2, "ON_BLUR") = <<>>
    /\ sysMsg.event.pos = <<30, 30>>
    /\ outputs = <<>>

\* The scenario after the press at (30,30) on a rectangle with a Blur
\* listener: the batch is that listener's message.
C20_WitnessBlur ==
    /\ Dispatched
    /\ sysMsg.kind = "MouseDown"
    /\ GroupOverRect
    /\ sysMsg.event.pos = <<30, 30>>
    /\ Len(outputs) = 1
    /\ outputs[1].func = "b"
    /\ outputs[1].variant = "OnBlur"

\* The structure of a tree: its nodes, each with its ordered children and
\* its listener registry.
Structure(tree) ==
    [n \in DOMAIN tree |-> [children |-> tree[n].children, listeners |-> tree[n].listeners]]

DispatchStep == sysMsg = NoMsg /\ sysMsg' # NoMsg

\* C21: a send_system_msg leaves the nodes of the tree, their ordered
\* children and their listener registries as they were; the batch keeps what
\* it held and grows at its end.
C21_StructureKept ==
    [][DispatchStep =>
         /\ Structure(view') = Structure(view)
         /\ Len(outputs') >= Len(preBatch')
         /\ SubSeq(outputs', 1, Len(preBatch')) = preBatch']_vars

\* After a dispatch on a three-node tree in which listeners of two
\* different nodes fired onto a non-empty batch.
C21_Witness ==
    /\ Dispatched
    /\ Len(view) = 3
    /\ view[1].children # <<>>
    /\ preBatch # <<>>
    /\ \E i, j \in DOMAIN Appended :
          /\ Appended[i].prim # Appended[j].prim
          /\ Appended[i].prim \in DOMAIN view
          /\ Appended[j].prim \in DOMAIN view

-----------------------------------------------------------------------------
(* Properties of the view-update aggregator *)

PrimNodes == {n \in DOMAIN view : "signal" \notin DOMAIN view[n]}

\* C22: update_view on a Prim returns None when it has no children and
\* otherwise Modify exactly when some child's update_view returned Modify,
\* wherever that child stands among its siblings.
C22_MaxOverChildren ==
    trace # <<>> =>
        \A n \in PrimNodes :
            /\ trace[n] \in UpdateView
            /\ view[n].children = <<>> => trace[n] = "None"
            /\ trace[n] = "Modify" <=>
                  \E c \in DOMAIN view[n].children : trace[view[n].children[c]] = "Modify"

\* A root whose first child reports Modify and whose last child reports
\* None: the root returned Modify.
C22_Witness ==
    /\ trace # <<>>
    /\ Len(view) = 3
    /\ view[1].children = <<2, 3>>
    /\ trace[2] = "Modify"
    /\ trace[3] = "None"
    /\ trace[1] = "Modify"

-----------------------------------------------------------------------------
(* Properties of the cycle's phases *)

PhaseAfter ==
    [Idle |-> "Translating", Translating |-> "Dispatching", Dispatching |-> "Reducing",
     Reducing |-> "Deciding", Deciding |-> "Idle"]

\* C23: the driver leaves a phase only for the next one of Idle,
\* Translating, Dispatching, Reducing, Deciding, Idle; the event changes
\* only when the driver is idle; and a cycle that was entered comes back to
\* Idle.
C23_RunsToCompletion ==
    /\ [][/\ phase' # phase => phase' = PhaseAfter[phase]
          /\ sysMsg' # sysMsg => phase = "Idle" /\ phase' = "Translating"]_vars
    /\ (phase # "Idle") ~> (phase = "Idle")

\* Idle again after a cycle that folded two messages and rebuilt the tree.
C23_Witness ==
    /\ phase = "Idle"
    /\ sysMsg # NoMsg
    /\ Len(trace) = Len(view)
    /\ Len(folded) >= 2
    /\ decision = "Rebuild"
    /\ applied = <<"build">>

-----------------------------------------------------------------------------
(* Properties of the host loop *)

\* The positions of a call in the last RedrawRequested handler.
InTick(call) == {i \in DOMAIN host.tick : host.tick[i].call = call}

Ticked == host.tick # <<>>

\* C24: in a tick whose update_view query reported nothing the host called
\* neither render nor swap_buffers and slept; render was called in a tick
\* only after the query reported an update.
C24_NoRedrawWithoutUpdate ==
    Ticked =>
        /\ InTick("update_view") = {1}
        /\ host.tick[1].ret = "none" =>
              /\ InTick("render") = {}
              /\ InTick("swap_buffers") = {}
              /\ InTick("sleep") # {}
        /\ InTick("render") # {} =>
              /\ host.tick[1].ret = "some"
              /\ InTick("sleep") = {}

\* The second tick of a run found nothing to update and slept, after a first
\* tick that rendered.
C24_Witness ==
    /\ host.pos = "loop"
    /\ host.ticks = 2
    /\ sysMsg.kind = "Draw"
    /\ host.tick = <<Called("update_view", "none"), Called("sleep", "ok")>>
    /\ \E i \in DOMAIN host.calls : host.calls[i].call = "render"

\* C25: the buffers were swapped in a tick exactly when render was called in
\* it and returned true, render before the swap, and set_dimensions was
\* called before render.
C25_SwapIffRendered ==
    Ticked =>
        /\ InTick("swap_buffers") # {} <=>
              \E i \in InTick("render") : host.tick[i].ret = "true"
        /\ \A i \in InTick("render") :
              /\ \E j \in InTick("set_dimensions") : j < i
              /\ \A j \in InTick("swap_buffers") : i < j
        /\ Cardinality(InTick("render")) <= 1
        /\ Cardinality(InTick("swap_buffers")) <= 1

\* A tick in which render returned true and the buffers were swapped, after
\* a tick in which render returned false and they were not.
C25_Witness ==
    /\ host.ticks = 2
    /\ host.tick = <<Called("update_view", "some"), Called("set_dimensions", "ok"),
                     Called("render", "true"), Called("swap_buffers", "ok")>>
    /\ \E i \in DOMAIN host.calls :
          /\ host.calls[i] = Called("render", "false")
          /\ host.calls[i + 1] = Called("update_view", "some")

\* The host sends a message of one of the kinds.
Sends(kinds) == sysMsg' # sysMsg /\ sysMsg'.kind \in kinds

\* C26: a MouseDown or MouseScroll the controller sends carries the
\* arguments of the last update_pos call of the run, (0,0) when there was
\* none, and leaves the controller as it was.
C26_LastPosAttached ==
    [][Sends({"MouseDown", "MouseScroll"}) =>
         /\ sysMsg'.event.pos = IF host.last[1] = "update_pos"
                                THEN <<host.last[2], host.last[3]>>
                                ELSE <<0, 0>>
         /\ host'.mouse = host.mouse]_vars

\* A MouseDown sent after the cursor moved to (10,10) and then to (30,30):
\* it carries (30,30), the stored offset is (20,-20).
C26_Witness ==
    /\ host.pos = "loop"
    /\ sysMsg.kind = "MouseDown"
    /\ sysMsg.event.pos = <<30, 30>>
    /\ host.mouse.last_pos = Some(MousePos(30, 30))
    /\ host.mouse.last_offset = Some(MousePos(20, 0 - 20))

\* A MouseScroll sent before any cursor movement: it carries (0,0).
C26_WitnessNoMove ==
    /\ host.pos = "loop"
    /\ host.last = <<"run">>
    /\ sysMsg.kind = "MouseScroll"
    /\ sysMsg.event.pos = <<0, 0>>
    /\ host.mouse = MouseControllerNew

\* Two shapes that differ at most in the named fields.
SameBut(a, b, fields) ==
    /\ DOMAIN a = DOMAIN b
    /\ \A f \in DOMAIN a \ fields : a[f] = b[f]

PatchStep == CycleStep /\ IsGame(model') /\ decision' = "Modify"

\* The nodes of the tree whose shape the step changed.
Patched == {n \in DOMAIN view : view'[n].shape # view[n].shape}

\* C27: a Modify of the Game keeps the nodes, their children and their
\* listeners; a node whose shape changed is the one found by its own
\* identifier, which is "field" or "docker" (only the transform changed),
\* "info" (only the transparency of the group changed) or the identifier of
\* the moved box (only the transform and the identifier changed); a moved
\* box that is not found leaves every other node's identifier alone and the
\* patch goes on.
C27_PatchKeepsShape ==
    [][PatchStep =>
         /\ applied' = <<"modify">>
         /\ DOMAIN view' = DOMAIN view
         /\ Structure(view') = Structure(view)
         /\ \A n \in Patched :
               \E id \in {ShapeId(view[n].shape)} :
                 /\ IsSome(id)
                 /\ GetPrim(view, Unwrap(id)) = Some(n)
                 /\ CASE Unwrap(id) \in {NameId("field"), NameId("docker")} ->
                            SameBut(view[n].shape, view'[n].shape, {"transform"})
                      [] Unwrap(id) = NameId("info") ->
                            /\ view[n].shape.kind = "Group"
                            /\ model'.state = "LevelComplete"
                            /\ SameBut(view[n].shape, view'[n].shape, {"transparency"})
                            /\ view'[n].shape.transparency = None
                      [] OTHER ->
                            /\ IsSome(model'.docker.skew_box)
                            /\ SameBut(view[n].shape, view'[n].shape, {"transform", "id"})
                            /\ ShapeId(view'[n].shape) = Some(Unwrap(model'.docker.skew_box).id)]_vars

\* After a Modify of the Game whose moved box was not in the tree under its
\* identifier: the docker's node was patched and no node was renamed.
C27_Witness ==
    /\ IsGame(model)
    /\ applied = <<"modify">>
    /\ IsSome(model.docker.skew_box)
    /\ GetPrim(view, Unwrap(model.docker.skew_box).id) = None
    /\ IsSome(GetPrim(view, NameId("docker")))
    /\ view[Unwrap(GetPrim(view, NameId("docker")))].shape.transform
         = Translate(AnimateVal(model.docker.x), AnimateVal(model.docker.y))

\* After a Modify of the Game that moved and renamed the pushed box.
C27_WitnessRenamed ==
    /\ IsGame(model)
    /\ applied = <<"modify">>
    /\ IsSome(model.docker.skew_box)
    /\ \E n \in DOMAIN view :
         /\ GetPrim(view, Unwrap(model.docker.skew_box).id) = Some(n)
         /\ view[n].shape.transform
              = Translate(AnimateVal(Unwrap(model.docker.skew_box).x),
                          AnimateVal(Unwrap(model.docker.skew_box).y))
         /\ view[n].shape.transform # ModelBuildView(model)[n].shape.transform

\* The translation of the node found as "docker", as an Option.
DockerNodeAt(tree) ==
    IF IsSome(GetPrim(tree, NameId("docker")))
    THEN Some(tree[Unwrap(GetPrim(tree, NameId("docker")))].shape.transform)
    ELSE None

\* The docker's animated position in the model, as a translation.
DockerAnimatedAt(game) == Translate(AnimateVal(game.docker.x), AnimateVal(game.docker.y))

\* C28: after every cycle of the Game, whatever its decision, the node
\* "docker" is translated to the model's animated docker position
\* (docker.x, docker.y). A Rebuild during a move violates it: build_view
\* places the docker at its cell.
C28_DockerFollowsModel ==
    (IsGame(model) /\ sysMsg # NoMsg) => DockerNodeAt(view) = Some(DockerAnimatedAt(model))

\* The positions of a collaborator call in the calls of the run so far.
CallsOf(call) == {i \in DOMAIN host.calls : host.calls[i].call = call}

\* The positions of the failed calls among those named.
FailuresOf(names) ==
    {i \in DOMAIN host.calls : host.calls[i].call \in names /\ host.calls[i].ret = "err"}

\* C29: a run that got its current context calls the renderer's init exactly
\* once, with one set_dimensions before it and every load_font and render
\* after it; a failed init or load_font is the last call, run has returned
\* AppError::RendererError and no system message was sent nor a frame begun;
\* a failed render or swap_buffers is the last call and the host has aborted.
C29_RendererFailuresFatal ==
    /\ CallsOf("make_current") # {} /\ ~Failed(host.calls) => host.pos \in {"loop", "exited"}
    /\ \A m \in CallsOf("make_current") :
          host.calls[m].ret = "ok" =>
            /\ Cardinality(CallsOf("init")) = 1
            /\ \A i \in CallsOf("init") :
                  /\ Cardinality({d \in CallsOf("set_dimensions") : d < i}) = 1
                  /\ \A l \in CallsOf("load_font") \cup CallsOf("render") : i < l
    /\ \A f \in FailuresOf({"init", "load_font"}) :
          /\ f = Len(host.calls)
          /\ host.pos = "returned"
          /\ host.result = Some("RendererError")
          /\ sysMsg = NoMsg
          /\ host.ticks = 0
          /\ CallsOf("render") \cup CallsOf("update_view") = {}
    /\ \A f \in FailuresOf({"render", "swap_buffers"}) :
          /\ f = Len(host.calls)
          /\ host.pos = "aborted"

\* A run with a font whose second frame failed in swap_buffers after a first
\* frame that was rendered and swapped.
C29_Witness ==
    /\ host.pos = "aborted"
    /\ host.ticks = 2
    /\ CallsOf("load_font") # {}
    /\ Cardinality(CallsOf("render")) = 2
    /\ FailuresOf({"swap_buffers"}) # {}

\* A run whose load_font failed after a successful init.
C29_WitnessStartup ==
    /\ host.pos = "returned"
    /\ FailuresOf({"load_font"}) # {}
    /\ host.result = Some("RendererError")

\* The non-zero powers of two a u16 holds.
PowersOfTwo == {2 ^ k : k \in 0..15}

\* A step in which with_multisampling(samples) was called.
MultisamplingStep(samples) ==
    /\ host.pos = "builder"
    /\ host' # host
    /\ host'.last = <<"with_multisampling", samples>>

\* C30: with_multisampling(0) stores None, a non-zero power of two is stored
\* as Some(samples), any other sample count panics; the builder's other
\* settings stay as they were.
C30_MultisamplingChecked ==
    [][\A samples \in 0..(MaxSamples + 1) :
         MultisamplingStep(samples) =>
           /\ [host' EXCEPT !.multisampling = host.multisampling,
                            !.pos = host.pos,
                            !.last = host.last] = host
           /\ CASE samples = 0 ->
                      host'.multisampling = None /\ host'.pos = "builder"
                [] samples \in PowersOfTwo ->
                      host'.multisampling = Some(samples) /\ host'.pos = "builder"
                [] OTHER ->
                      host'.pos = "panicked"]_vars

\* A builder whose font and exit_by_escape were set before
\* with_multisampling(4) stored its sample count.
C30_Witness ==
    /\ host.last = <<"with_multisampling", 4>>
    /\ host.multisampling = Some(4)
    /\ host.pos = "builder"
    /\ IsSome(host.font)
    /\ ~host.exit_by_escape

\* with_multisampling(6) panicked on a builder that held 2 samples.
C30_WitnessPanic ==
    /\ host.last = <<"with_multisampling", 6>>
    /\ host.pos = "panicked"
    /\ host.multisampling = Some(2)

\* with_multisampling(0) on a builder with a font.
C30_WitnessOff ==
    /\ host.last = <<"with_multisampling", 0>>
    /\ host.multisampling = None
    /\ IsSome(host.font)

\* C31: update_pos(x, y) stores (x, y) as the last position; the offset it
\* stores is (0, 0) on the first call and (x - last.x, last.y - y) on a later
\* one, last being the position the call before stored.
C31_OffsetFromLast ==
    [][host'.mouse # host.mouse =>
         /\ Len(host'.last) = 3
         /\ host'.last[1] = "update_pos"
         /\ \E x \in {host'.last[2]}, y \in {host'.last[3]} :
               /\ host'.mouse.last_pos = <<[x |-> x, y |-> y]>>
               /\ IF host.mouse.last_pos = <<>>
                  THEN host'.mouse.last_offset = <<[x |-> 0, y |-> 0]>>
                  ELSE host'.mouse.last_offset
                         = <<[x |-> x - host.mouse.last_pos[1].x,
                              y |-> host.mouse.last_pos[1].y - y]>>]_vars

\* After a second update_pos that moved the pointer from (50, 50) to
\* (10, 10): the offset is (-40, 40).
C31_Witness ==
    /\ host.last = <<"update_pos", 10, 10>>
    /\ host.mouse.last_pos = <<[x |-> 10, y |-> 10]>>
    /\ host.mouse.last_offset = <<[x |-> -40, y |-> 40]>>

\* After an update_pos before any message was sent: position stored,
\* offset (0, 0).
C31_WitnessFirst ==
    /\ host.last = <<"update_pos", 30, 30>>
    /\ host.mouse.last_pos = <<[x |-> 30, y |-> 30]>>
    /\ host.mouse.last_offset = <<[x |-> 0, y |-> 0]>>
    /\ sysMsg = NoMsg

\* A tree made of Prim nodes only.
PrimOnly(tree) == tree # <<>> /\ \A n \in DOMAIN tree : "signal" \notin DOMAIN tree[n]

\* C32: on a tree made of Prim nodes only, update_view returns None at the
\* root and at every node below it, whatever the shape of the tree and
\* whatever events were dispatched and patches applied before.
C32_PrimTreeReportsNone ==
    PrimOnly(view) => \A n \in DOMAIN view : UpdateViewOf(view, n) = "None"

\* The Game's tree after a Draw whose patch moved the docker: the root has
\* children that have children, and update_view returns None.
C32_Witness ==
    /\ IsGame(model)
    /\ PrimOnly(view)
    /\ applied = <<"modify">>
    /\ outputs # <<>>
    /\ \E n \in DOMAIN view, c \in DOMAIN view :
          /\ n # 1
          /\ view[n].children # <<>>
          /\ c \in {view[n].children[k] : k \in DOMAIN view[n].children}
          /\ IsSome(ShapeId(view[n].shape))
    /\ view # ModelBuildView(model)
    /\ UpdateViewOf(view, 1) = "None"

\* The key codes the window delivers: Escape, another key, or none.
KeyCodes == {<<"Escape">>, <<"Enter">>, <<>>}

\* A step in which the loop handled a keyboard event.
KeyStep(keycode, pressed) ==
    /\ host.pos = "loop"
    /\ host'.event = <<"KeyboardInput", keycode, pressed>>
    /\ host' # host \/ sysMsg' # sysMsg

\* C33: with exit_by_escape a keyboard event of Escape, pressed or released,
\* ends the loop and sends the component nothing; without it, and for every
\* other key, the event is sent as KeyDown when pressed and KeyUp when
\* released and the loop goes on.
C33_EscapeExits ==
    [][\A keycode \in KeyCodes, pressed \in BOOLEAN :
         KeyStep(keycode, pressed) =>
           IF keycode = <<"Escape">> /\ host.exit_by_escape
           THEN /\ host'.pos = "exited"
                /\ sysMsg' = sysMsg
           ELSE /\ host'.pos = "loop"
                /\ sysMsg'.kind = (IF pressed THEN "KeyDown" ELSE "KeyUp")
                /\ sysMsg'.event.keycode = keycode]_vars

\* A released Escape ended a loop with exit_by_escape in which a character
\* was the last message sent.
C33_Witness ==
    /\ host.exit_by_escape
    /\ host.event = <<"KeyboardInput", <<"Escape">>, FALSE>>
    /\ host.pos = "exited"
    /\ sysMsg.kind = "Char"

\* Without exit_by_escape a released Escape reached the component as KeyUp.
C33_WitnessForwarded ==
    /\ ~host.exit_by_escape
    /\ host.event = <<"KeyboardInput", <<"Escape">>, FALSE>>
    /\ host.pos = "loop"
    /\ sysMsg.kind = "KeyUp"
    /\ sysMsg.event.keycode = <<"Escape">>

\* The positions of a call in the last RedrawRequested, after the step.
InFrame(call) == {i \in DOMAIN host'.frame : host'.frame[i].call = call}

\* A step that handled a RedrawRequested.
RedrawStep == host.pos = "loop" /\ host'.ticks = host.ticks + 1

\* C34: a RedrawRequested asks the hook first. On Continue it sends one Draw
\* message, carrying the time that passed since the Draw before (since the
\* loop was set up, for the first), and sends it before update_view is
\* queried and before any render; on Exit it sends nothing, calls neither
\* update_view nor the renderer nor swap_buffers, and the loop ends. Time
\* since the last Draw only grows between two Draws.
C34_HookThenDraw ==
    [][/\ RedrawStep =>
            /\ InFrame("redraw_hook") = {1}
            /\ host'.frame[1].ret = host'.event[2]
            /\ IF host'.frame[1].ret = "Continue"
               THEN /\ InFrame("send_system_msg") = {2}
                    /\ sysMsg' = [kind |-> "Draw", event |-> host.since]
                    /\ host'.since = 0
                    /\ InFrame("update_view") = {3}
                    /\ \A i \in InFrame("render") \cup InFrame("swap_buffers") : i > 3
                    /\ host'.calls = host.calls \o SubSeq(host'.frame, 3, Len(host'.frame))
               ELSE /\ Len(host'.frame) = 1
                    /\ sysMsg' = sysMsg
                    /\ host'.calls = host.calls
                    /\ host'.since = host.since
                    /\ host'.pos = "exited"
       /\ ~RedrawStep =>
            /\ host'.since \in {host.since, host.since + 1}
            /\ sysMsg' = sysMsg \/ sysMsg'.kind # "Draw"]_vars

\* A second frame, two waits after the first: its Draw carries 2 and went
\* out before a render that was swapped.
C34_Witness ==
    /\ host.ticks = 2
    /\ host.pos = "loop"
    /\ sysMsg = [kind |-> "Draw", event |-> 2]
    /\ host.since = 0
    /\ Len(host.frame) = 6
    /\ host.frame[6] = Called("swap_buffers", "ok")
    /\ Len(host.calls) = 3 + 2 + 4

\* A frame whose hook answered Exit after a key was sent: the key is still
\* the last message.
C34_WitnessExit ==
    /\ host.event = <<"RedrawRequested", "Exit">>
    /\ host.pos = "exited"
    /\ host.frame = <<Called("redraw_hook", "Exit")>>
    /\ sysMsg.kind = "KeyDown"
    /\ host.since = 1

-----------------------------------------------------------------------------
(* Properties of the sokoban Game *)

\* The step was an update call with a message of the given type.
Updated(type) ==
    /\ folded' # <<>>
    /\ folded' # folded \/ model' # model
    /\ folded'[1].msg.type = type

MoveKeys == {"Left", "Right", "Up", "Down"}

\* Something of the docker is on its way: its x or y, or the x or y of the
\* box it pushed, has a current value other than the target.
DockerOnItsWay(game) ==
    \/ game.docker.x.value # game.docker.x.target
    \/ game.docker.y.value # game.docker.y.target
    \/ /\ game.docker.skew_box # <<>>
       /\ \/ game.docker.skew_box[1].x.value # game.docker.skew_box[1].x.target
          \/ game.docker.skew_box[1].y.value # game.docker.skew_box[1].y.target

\* C35: a KeyDown of Left, Right, Up or Down returns ChangeView::None; while
\* the docker or its pushed box is on its way it leaves the whole model as it
\* was, so the model changes on such a key only when nothing of the docker is
\* on its way.
C35_InputLock ==
    [][(Updated("KeyDown") /\ folded'[1].msg.code \in MoveKeys) =>
         /\ folded'[1].cv = "None"
         /\ DockerOnItsWay(model) => model' = model]_vars

\* After a KeyDown(Left) that arrived while the docker was moving right with
\* a box: the move is still on its way and its targets are those of the push.
C35_Witness ==
    /\ folded = <<[msg |-> [type |-> "KeyDown", code |-> "Left"], cv |-> "None"]>>
    /\ DockerOnItsWay(model)
    /\ model.docker.x.value # model.docker.x.target
    /\ model.docker.col = 2
    /\ IsSome(model.docker.skew_box)
    /\ Unwrap(model.docker.skew_box).x.value # Unwrap(model.docker.skew_box).x.target

\* After a KeyDown(Up) that arrived while the docker was moving.
C35_WitnessUp ==
    /\ folded = <<[msg |-> [type |-> "KeyDown", code |-> "Up"], cv |-> "None"]>>
    /\ DockerOnItsWay(model)

\* After a KeyDown(Left) at rest that moved the docker back.
C35_WitnessAccepted ==
    /\ folded = <<[msg |-> [type |-> "KeyDown", code |-> "Left"], cv |-> "None"]>>
    /\ model.docker.col = 1
    /\ model.docker.x.value > model.docker.x.target

\* Anything of the Game is on its way: the zoom or the docker.
OnItsWay(game) ==
    game.canvas.scale_factor.value # game.canvas.scale_factor.target \/ DockerOnItsWay(game)

\* The boxes of a level that stand off a place.
BoxesOff(level) ==
    {rc \in (DOMAIN level.cells) \X (DOMAIN level.cells[0]) : level.cells[rc[1]][rc[2]] = "Box"}

\* C36: the state of the Game goes Run -> LevelComplete -> NextLevel -> Run:
\* LevelComplete is entered only from Run, by a move key that pushed a box and
\* left no box off a place; NextLevel only from LevelComplete, by Enter, which
\* changes nothing in another state; NextLevel is left only for Run, by a
\* Draw with nothing on its way or by Backspace. A push in state NextLevel
\* that completes the level violates it: the state goes back to LevelComplete.
C36_StateCycle ==
    [][/\ (model.state # "LevelComplete" /\ model'.state = "LevelComplete") =>
            /\ model.state = "Run"
            /\ Updated("KeyDown")
            /\ folded'[1].msg.code \in MoveKeys
            /\ model'.level.cells # model.level.cells
            /\ BoxesOff(model'.level) = {}
       /\ (model.state # "NextLevel" /\ model'.state = "NextLevel") =>
            /\ model.state = "LevelComplete"
            /\ Updated("KeyDown")
            /\ folded'[1].msg.code = "Enter"
       /\ (Updated("KeyDown") /\ folded'[1].msg.code = "Enter"
             /\ model.state # "LevelComplete") => model' = model
       /\ (model.state = "NextLevel" /\ model'.state # "NextLevel") =>
            /\ model'.state = "Run"
            /\ \/ Updated("Draw") /\ ~OnItsWay(model)
               \/ Updated("KeyDown") /\ folded'[1].msg.code = "Backspace"]_vars

\* A Game with its Animate values taken out.
Unanimated(game) ==
    [game EXCEPT
        !.canvas.scale_factor = 0,
        !.docker.x = 0,
        !.docker.y = 0,
        !.docker.skew_box = IF @ = <<>> THEN @ ELSE <<[@[1] EXCEPT !.x = 0, !.y = 0]>>]

\* C37: a Draw with something on its way returns Modify and steps every
\* Animate value of the Game by the elapsed time, leaving the rest; with
\* nothing on its way it returns Modify and changes nothing in state
\* LevelComplete, returns Rebuild in state NextLevel having loaded the next
\* level, reset the docker and set state Run, and returns None and changes
\* nothing in state Run.
C37_DrawDecision ==
    [][Updated("Draw") =>
         IF OnItsWay(model)
         THEN /\ folded'[1].cv = "Modify"
              /\ Unanimated(model') = Unanimated(model)
              /\ Animates(model')
                   = [i \in DOMAIN Animates(model) |->
                        Stepped(Animates(model)[i], folded'[1].msg.elapsed)]
         ELSE CASE model.state = "LevelComplete" ->
                      folded'[1].cv = "Modify" /\ model' = model
                [] model.state = "NextLevel" ->
                      /\ folded'[1].cv = "Rebuild"
                      /\ model'.state = "Run"
                      /\ model'.level.number
                           = (model.level.number % Len(model.level.grids)) + 1
                      /\ BoxesOff(model'.level) # {}
                      /\ model'.canvas = model.canvas
                      /\ model'.docker.skew_box = <<>>
                      /\ ~OnItsWay(model')
                [] OTHER ->
                      folded'[1].cv = "None" /\ model' = model]_vars

\* After the Draw that served NextLevel on the first level: Rebuild, state
\* Run, the second level loaded.
C37_Witness ==
    /\ folded = <<[msg |-> [type |-> "Draw", elapsed |-> 80], cv |-> "Rebuild"]>>
    /\ model.state = "Run"
    /\ model.level.number = 2
    /\ model.level.grids = LevelGrids

\* After a Draw in state LevelComplete with nothing on its way.
C37_WitnessComplete ==
    /\ folded = <<[msg |-> [type |-> "Draw", elapsed |-> 80], cv |-> "Modify"]>>
    /\ model.state = "LevelComplete"
    /\ ~OnItsWay(model)
    /\ model.canvas.scale_factor.value = 1000

\* After a Draw in state Run with everything settled.
C37_WitnessRest ==
    /\ folded = <<[msg |-> [type |-> "Draw", elapsed |-> 80], cv |-> "None"]>>
    /\ model.state = "Run"
    /\ ~OnItsWay(model)

\* After a Draw in state NextLevel while the pushed box was on its way.
C37_WitnessMoving ==
    /\ folded = <<[msg |-> [type |-> "Draw", elapsed |-> 80], cv |-> "Modify"]>>
    /\ model.state = "NextLevel"
    /\ DockerOnItsWay(model)

\* The input has fallen silent.
InputSilent == phase = "Silent"

\* C38: once the input has fallen silent in state NextLevel, the ticks bring
\* the Game to state Run by a tick that decided Rebuild with everything
\* settled; meanwhile only that tick changes the level or the state, and it
\* loads the next level out of a Game with nothing on its way.
C38_AdvanceServed ==
    /\ (InputSilent /\ model.state = "NextLevel")
          ~> (InputSilent /\ model.state = "Run" /\ folded[1].cv = "Rebuild"
                     /\ ~OnItsWay(model))
    /\ [][InputSilent =>
            IF model'.level # model.level \/ model'.state # model.state
               \/ folded'[1].cv = "Rebuild"
            THEN /\ model.state = "NextLevel"
                 /\ ~OnItsWay(model)
                 /\ model'.state = "Run"
                 /\ folded'[1].cv = "Rebuild"
                 /\ model'.level.number
                      = (model.level.number % Len(model.level.grids)) + 1
            ELSE model.state = "NextLevel" => OnItsWay(model)]_vars

\* The level advance was served after the input fell silent.
C38_Witness ==
    /\ InputSilent
    /\ model.state = "Run"
    /\ folded = <<[msg |-> [type |-> "Draw", elapsed |-> 40], cv |-> "Rebuild"]>>
    /\ model.level.number = 2

\* The input has fallen silent with the pushed box and the zoom on their way.
C38_WitnessWaiting ==
    /\ InputSilent
    /\ model.state = "NextLevel"
    /\ DockerOnItsWay(model)
    /\ AnimateIsTransient(model.canvas.scale_factor)
    /\ folded[1].msg.type = "Draw"
    /\ folded[1].cv = "Modify"

\* The smallest zoom, 0.01, in thousandths.
MinScaleFactor == 10

\* C39: the current value of canvas.scale_factor is never below 0.01, and a
\* Scroll leaves it settled at the larger of 0.01 and the value before plus a
\* tenth of the delta, changes nothing else, and returns Rebuild.
C39_ZoomFloor ==
    /\ [](model.canvas.scale_factor.value >= MinScaleFactor)
    /\ [][Updated("Scroll") =>
            \E to \in {model.canvas.scale_factor.value + folded'[1].msg.delta * 100} :
               /\ model'.canvas.scale_factor.value
                    = (IF to < MinScaleFactor THEN MinScaleFactor ELSE to)
               /\ model'.canvas.scale_factor.target = model'.canvas.scale_factor.value
               /\ model' = [model EXCEPT !.canvas.scale_factor = model'.canvas.scale_factor]
               /\ folded'[1].cv = "Rebuild"]_vars

\* A scroll down that met the floor.
C39_Witness ==
    /\ folded = <<[msg |-> [type |-> "Scroll", delta |-> -10], cv |-> "Rebuild"]>>
    /\ model.canvas.scale_factor.value = MinScaleFactor
    /\ model.canvas.scale_factor.target = MinScaleFactor

\* A scroll that stopped the zoom above the floor while it was on its way.
C39_WitnessAbove ==
    /\ folded = <<[msg |-> [type |-> "Scroll", delta |-> -1], cv |-> "Rebuild"]>>
    /\ model.canvas.scale_factor.value = 70
    /\ model.canvas.scale_factor.target = 70

====
